---- MODULE Spec2Model ----
(***************************************************************************)
(* The search-and-scrape cascade of the Playwright web search tool:        *)
(* WebSearchToolPlaywright.search_and_scrape (web_search_tool.py), the     *)
(* wave scraper scrape_parallel_playwright (content_scraper.py), the link   *)
(* extraction of the providers (search_engine.py), the ResourceMonitor     *)
(* signals (resource_monitor.py), lambda_handler (lambda_handler.py) and   *)
(* upload_image_to_s3 (s3_uploader.py).                                    *)
(*                                                                         *)
(* Strings are sequences of one-character strings, so that normalize_url,  *)
(* is_blocked_url, the title markers and is_llm_readable are computed the  *)
(* way the Python code computes them.                                      *)
(***************************************************************************)
EXTENDS Integers, Sequences, FiniteSets, TLC

VARIABLES
    pc,               \* position of the coordinating task in search_and_scrape
    k,                \* requested number of results
    include_images,   \* image mode flag of the request
    has_monitor,      \* self.resource_monitor is not None
    has_context,      \* lambda_context is not None
    mem_sample,       \* <<rss in MB, allocated MB>> as the monitor reads them
    remaining,        \* seconds left in the execution context
    max_parallel,     \* concurrency budget of the request
    search_k,         \* k plus the search buffer
    seen_normalized,  \* set of normalized URLs admitted so far
    prov,             \* index of the provider being processed (1 = brave)
    unique_urls,      \* admitted URLs of the current provider
    batch_start,      \* scrape_parallel_playwright: start of the next wave
    wave,             \* URLs of the wave in flight
    scraped,          \* results of the current provider's batch, in input order
    eval_idx,         \* position of the quality-gate loop in scraped
    valid_results,    \* accepted items
    engines_used,     \* providers recorded for the composite identifier
    brave_failed,     \* the primary produced no admissible URL
    queries,          \* log of provider invocations
    fetched,          \* log of page fetches: the URL and the provider it came from
    deadline_hit,     \* a deadline check has answered "stop"
    stop_at_start,    \* the deadline signal was already "stop" at request entry
    actual_engine,    \* composite provider identifier of the result
    result,           \* items of the returned SearchAndScrapeResult
    task_state,       \* scrape_in_new_tab: where each task of the wave stands
    open_pages,       \* indices of the tasks that hold an open page
    results,          \* scrape_parallel_playwright: the results array
    query,            \* the query text of the request
    engine,           \* the engine parameter of the request
    status_code,      \* statusCode of the handler's response, 0 before it responds
    browser_created,  \* create_playwright_browser() has been entered
    input_text,       \* is_llm_readable: the text it is called with
    verdict,          \* is_llm_readable: what it returned
    image_url,        \* upload_image_to_s3: the source URL it is called with
    bucket,           \* upload_image_to_s3: the bucket name it is called with
    max_retries,      \* upload_image_to_s3: the attempts allowed to each stage
    s3_key,           \* the key made by _generate_s3_key
    attempt,          \* loop variable of the retry loop that is running
    image_data,       \* what _download_image_with_retry returned
    last_error,       \* last_error of the retry loop that is running
    calls,            \* log of session.get, put_object and asyncio.sleep calls
    outcome           \* what upload_image_to_s3 returned or raised

vars == <<pc, k, include_images, has_monitor, has_context, mem_sample, remaining,
          max_parallel, search_k, seen_normalized, prov, unique_urls, batch_start,
          wave, scraped, eval_idx, valid_results, engines_used, brave_failed,
          queries, fetched, deadline_hit, stop_at_start, actual_engine, result,
          task_state, open_pages, results, query, engine, status_code, browser_created,
          input_text, verdict,
          image_url, bucket, max_retries, s3_key, attempt, image_data, last_error,
          calls, outcome>>

\* the request as the handler sees it and what the handler answers
handler_vars == <<query, engine, status_code, browser_created>>

\* the argument and the answer of a call of is_llm_readable on its own
readable_vars == <<input_text, verdict>>

\* the state of a call of upload_image_to_s3
upload_vars == <<image_url, bucket, max_retries, s3_key, attempt, image_data, last_error,
                 calls, outcome>>

\* upload_image_to_s3 is not running
UploadIdle ==
    /\ image_url = <<>>
    /\ bucket = <<>>
    /\ max_retries = 0
    /\ s3_key = <<>>
    /\ attempt = 0
    /\ image_data = "None"
    /\ last_error = "None"
    /\ calls = <<>>
    /\ outcome = "None"

\* the state of the task-level view of scrape_parallel_playwright
scrape_vars == <<task_state, open_pages, results>>

\* what a run of scrape_parallel_playwright on its own leaves alone
request_vars == <<k, include_images, has_monitor, has_context, mem_sample, remaining,
                  search_k, seen_normalized, prov, eval_idx, valid_results, engines_used,
                  brave_failed, queries, deadline_hit, stop_at_start, actual_engine, result,
                  query, engine, status_code, browser_created, input_text, verdict,
          image_url, bucket, max_retries, s3_key, attempt, image_data, last_error,
          calls, outcome>>

----------------------------------------------------------------------------
(* Bounds of the model *)

\* largest k a request of the model asks for (the handler allows up to 20)
MaxK == 11

\* seconds left in the execution context when the request enters
MaxRemaining == 5

\* longest URL list and largest max_parallel handed to scrape_parallel_playwright
\* when it is run on its own
MaxScrapeUrls == 5

MaxTabs == 3

----------------------------------------------------------------------------
(* Text helpers: Python str operations on sequences of characters *)

LowerLetters == <<"a", "b", "c", "d", "e", "f", "g", "h", "i", "j", "k", "l", "m",
                  "n", "o", "p", "q", "r", "s", "t", "u", "v", "w", "x", "y", "z">>

UpperLetters == <<"A", "B", "C", "D", "E", "F", "G", "H", "I", "J", "K", "L", "M",
                  "N", "O", "P", "Q", "R", "S", "T", "U", "V", "W", "X", "Y", "Z">>

Digits == <<"0", "1", "2", "3", "4", "5", "6", "7", "8", "9">>

Range(s) == {s[i] : i \in DOMAIN s}

Min(a, b) == IF a < b THEN a ELSE b

\* s[:n]
Take(s, n) == SubSeq(s, 1, Min(n, Len(s)))

\* sub in s
Contains(s, sub) ==
    \E i \in 1..(Len(s) - Len(sub) + 1) : SubSeq(s, i, i + Len(sub) - 1) = sub

\* c.lower() for one character
LowerChar(c) ==
    IF \E i \in DOMAIN UpperLetters : UpperLetters[i] = c
    THEN LowerLetters[CHOOSE i \in DOMAIN UpperLetters : UpperLetters[i] = c]
    ELSE c

\* s.lower()
Lower(s) == [i \in DOMAIN s |-> LowerChar(s[i])]

\* s.rstrip(c)
RECURSIVE RStrip(_, _)
RStrip(s, c) ==
    IF Len(s) > 0 /\ s[Len(s)] = c THEN RStrip(SubSeq(s, 1, Len(s) - 1), c) ELSE s

\* s.split(c)[0]
BeforeFirst(s, c) ==
    IF c \in Range(s)
    THEN SubSeq(s, 1, (CHOOSE i \in DOMAIN s : s[i] = c /\ \A j \in 1..(i - 1) : s[j] # c) - 1)
    ELSE s

\* c.isspace()
IsSpace(c) == c \in {" ", "\n", "\t"}

\* c.isalnum()
IsAlnum(c) == c \in Range(LowerLetters) \cup Range(UpperLetters) \cup Range(Digits)

\* s.split(): the maximal runs of non-whitespace characters, left to right
WordStarts(s) == {i \in DOMAIN s : ~IsSpace(s[i]) /\ (i = 1 \/ IsSpace(s[i - 1]))}

WordEnds(s) == {i \in DOMAIN s : ~IsSpace(s[i]) /\ (i = Len(s) \/ IsSpace(s[i + 1]))}

\* the j-th smallest element of a set of numbers
Nth(S, j) == CHOOSE x \in S : Cardinality({y \in S : y < x}) = j - 1

Split(s) ==
    [j \in 1..Cardinality(WordStarts(s)) |->
        SubSeq(s, Nth(WordStarts(s), j), Nth(WordEnds(s), j))]

\* ' '.join(words)
RECURSIVE JoinSpace(_)
JoinSpace(words) ==
    IF words = <<>> THEN <<>>
    ELSE IF Len(words) = 1 THEN words[1]
    ELSE words[1] \o <<" ">> \o JoinSpace(Tail(words))

RECURSIVE Repeat(_, _)
Repeat(s, n) == IF n = 0 THEN <<>> ELSE s \o Repeat(s, n - 1)

----------------------------------------------------------------------------
(* ResourceMonitor *)

\* the time remaining reported when no execution context is supplied
NoDeadline == 999999

\* default buffer of should_return_partial_results, in seconds
DeadlineBuffer == 5

\* the threshold test with >= in place of >
should_reduce_parallelism_AtLeast(sample) == 10 * sample[1] >= 8 * sample[2]

\* usage_ratio > threshold with threshold = 0.8, on <<usage, allocated>>
should_reduce_parallelism(sample) == 10 * sample[1] > 8 * sample[2]

get_time_remaining_seconds(context, left) == IF ~context THEN NoDeadline ELSE left

\* the deadline test with <= in place of <
should_return_partial_results_AtMost(context, left) ==
    get_time_remaining_seconds(context, left) <= DeadlineBuffer

should_return_partial_results(context, left) ==
    get_time_remaining_seconds(context, left) < DeadlineBuffer

\* readings of <<rss, AWS_LAMBDA_FUNCTION_MEMORY_SIZE>>: just under, exactly at
\* and just over 80% of the allocation
MemSamples == {<<2457, 3072>>, <<8192, 10240>>, <<8193, 10240>>}

\* without a monitor nothing is read
NoSample == <<0, 0>>

----------------------------------------------------------------------------
(* The URLs of the model: each is the text a provider hands back *)

Scheme == <<"h", "t", "t", "p", ":", "/", "/">>

TopLevel == <<".", "i", "o">>

\* number of distinct well-behaved sites: enough to answer the largest request
GoodCount == MaxK + 5

\* the path of the page a site is listed with
PagePath == <<"/", "g">>

\* http://<letter>.io/g
GoodUrl(i) == Scheme \o <<LowerLetters[i]>> \o TopLevel \o PagePath

\* http://<c><letter>.io/g
SiteUrl(c, i) == Scheme \o <<c, LowerLetters[i]>> \o TopLevel \o PagePath

U_Slash == GoodCount + 1
U_SlashFragment == GoodCount + 2
U_UpperPath == GoodCount + 3
U_LowerPath == GoodCount + 4
U_UpperQuery == GoodCount + 5
U_LowerQuery == GoodCount + 6
U_Blocked == GoodCount + 7
U_BlockedInfix == GoodCount + 8
U_BlockPageBase == GoodCount + 8
U_Fail == GoodCount + 17
U_Short == GoodCount + 18
U_NotFound == GoodCount + 19
U_Symbols == GoodCount + 20
U_Www == GoodCount + 21
U_Reddit == GoodCount + 22
U_RedditInfix == GoodCount + 23
U_RedditPath == GoodCount + 24
U_LowerNotFound == GoodCount + 25
U_Seventy == GoodCount + 26
U_SixtyNine == GoodCount + 27

UrlIds == 1..(GoodCount + 27)

BlockPageUrls == (U_BlockPageBase + 1)..(U_BlockPageBase + 8)

UrlText ==
    [u \in UrlIds |->
        CASE u <= GoodCount -> GoodUrl(u)
          [] u = U_Slash -> GoodUrl(1) \o <<"/">>
          [] u = U_SlashFragment -> GoodUrl(1) \o <<"/", "#", "t">>
          [] u = U_UpperPath -> GoodUrl(1) \o <<"/", "P">>
          [] u = U_LowerPath -> GoodUrl(1) \o <<"/", "p">>
          [] u = U_UpperQuery -> GoodUrl(1) \o <<"/", "?", "Q">>
          [] u = U_LowerQuery -> GoodUrl(1) \o <<"/", "?", "q">>
          [] u = U_Blocked -> Scheme \o <<"x", ".", "c", "o", "m", "/", "a">>
          [] u = U_BlockedInfix ->
                Scheme \o <<"n", "e", "t", "f", "l", "i", "x", ".", "c", "o", "m">> \o PagePath
          [] u \in BlockPageUrls -> SiteUrl("k", u - U_BlockPageBase)
          [] u = U_Fail -> SiteUrl("f", 1)
          [] u = U_Short -> SiteUrl("s", 1)
          [] u = U_NotFound -> SiteUrl("n", 1)
          [] u = U_Symbols -> SiteUrl("y", 1)
          [] u = U_Www -> Scheme \o <<"w", "w", "w", ".", "a">> \o TopLevel \o <<"/", "w">>
          [] u = U_Reddit -> Scheme \o <<"r", "e", "d", "d", "i", "t", ".", "c", "o", "m">> \o <<"/", "r">>
          [] u = U_RedditInfix -> Scheme \o <<"n", "o", "t">> \o <<"r", "e", "d", "d", "i", "t", ".", "c", "o", "m">> \o PagePath
          [] u = U_RedditPath -> SiteUrl("r", 1) \o <<"/">> \o <<"r", "e", "d", "d", "i", "t", ".", "c", "o", "m">>
          [] u = U_LowerNotFound -> SiteUrl("l", 1)
          [] u = U_Seventy -> SiteUrl("v", 1)
          [] u = U_SixtyNine -> SiteUrl("u", 1)]

----------------------------------------------------------------------------
(* The pages behind the URLs: what page.goto and page.evaluate find *)

\* n words, each followed by a line break and a space, as innerText gives them
RawWords(w, n) == Repeat(w \o <<"\n", " ">>, n)

PageIds == {"good", "block", "fail", "short", "notfound", "symbols", "lowernotfound",
            "seventy", "sixtynine"}

\* 50 words in 100 characters: dollars one-letter words "$", letters one-letter
\* words "a" and the word "aa"
SymbolMix(dollars, letters) ==
    RawWords(<<"$">>, dollars) \o RawWords(<<"a">>, letters) \o <<"a", "a">>

RawPage ==
    [p \in PageIds |->
        CASE p = "good" ->
                [loads |-> TRUE, title |-> <<"G", "u", "i", "d", "e">>,
                 inner_text |-> RawWords(<<"a", "b">>, 50)]
          [] p = "block" ->
                [loads |-> TRUE,
                 title |-> <<"4", "0", "3", " ", "F", "o", "r", "b", "i", "d", "d", "e", "n">>,
                 inner_text |-> <<>>]
          [] p = "fail" -> [loads |-> FALSE, title |-> <<>>, inner_text |-> <<>>]
          [] p = "short" ->
                [loads |-> TRUE, title |-> <<"G", "u", "i", "d", "e">>,
                 inner_text |-> RawWords(<<"a", "b">>, 49)]
          [] p = "notfound" ->
                [loads |-> TRUE,
                 title |-> <<"4", "0", "4", " ", "N", "o", "t", " ", "F", "o", "u", "n", "d">>,
                 inner_text |-> RawWords(<<"a", "b">>, 60)]
          [] p = "symbols" ->
                [loads |-> TRUE, title |-> <<"G", "u", "i", "d", "e">>,
                 inner_text |-> RawWords(<<"$", "%">>, 60)]
          [] p = "lowernotfound" ->
                [loads |-> TRUE,
                 title |-> <<"P", "a", "g", "e", " ", "n", "o", "t", " ", "f", "o", "u", "n", "d">>,
                 inner_text |-> RawWords(<<"a", "b">>, 60)]
          [] p = "seventy" ->
                [loads |-> TRUE, title |-> <<"G", "u", "i", "d", "e">>,
                 inner_text |-> SymbolMix(30, 19)]
          [] p = "sixtynine" ->
                [loads |-> TRUE, title |-> <<"G", "u", "i", "d", "e">>,
                 inner_text |-> SymbolMix(31, 18)]]

PageOf ==
    [u \in UrlIds |->
        CASE u \in BlockPageUrls -> "block"
          [] u = U_Fail -> "fail"
          [] u = U_Short -> "short"
          [] u = U_NotFound -> "notfound"
          [] u = U_Symbols -> "symbols"
          [] u = U_LowerNotFound -> "lowernotfound"
          [] u = U_Seventy -> "seventy"
          [] u = U_SixtyNine -> "sixtynine"
          [] OTHER -> "good"]

\* content = ' '.join(result['content'].split())
CollapseWhitespace(text) == JoinSpace(Split(text))

\* word_count = len(content.split())
CountWords(content) == Len(Split(content))

PageContent == [p \in PageIds |-> CollapseWhitespace(RawPage[p].inner_text)]

PageWordCount == [p \in PageIds |-> CountWords(PageContent[p])]

\* scrape_url_playwright: the ScrapedContent for one page load
scrape_url_playwright(u, p) ==
    IF RawPage[p].loads
    THEN [url |-> u, page |-> p, success |-> TRUE, error |-> "None",
          word_count |-> PageWordCount[p]]
    ELSE [url |-> u, page |-> "none", success |-> FALSE, word_count |-> 0,
          error |-> "Playwright scraping error"]

ScrapedOf == [u \in UrlIds |-> scrape_url_playwright(u, PageOf[u])]

\* the title and content fields of a ScrapedContent
TitleOf(item) == IF item.page \in PageIds THEN RawPage[item.page].title ELSE <<>>

ContentOf(item) == IF item.page \in PageIds THEN PageContent[item.page] ELSE <<>>

----------------------------------------------------------------------------
(* search_and_scrape: the pure parts *)

\* the ratio test with > in place of >=
is_llm_readable_Above(text) ==
    /\ Len(text) >= 10
    /\ 10 * Cardinality({i \in DOMAIN text : IsAlnum(text[i]) \/ IsSpace(text[i])})
          > 7 * Len(text)

\* is_llm_readable: alphanumeric_count / total_count >= 0.7
is_llm_readable(text) ==
    /\ Len(text) >= 10
    /\ 10 * Cardinality({i \in DOMAIN text : IsAlnum(text[i]) \/ IsSpace(text[i])})
          >= 7 * Len(text)

ReadablePage == [p \in PageIds |-> is_llm_readable(PageContent[p])]

\* reduced and default parallelism
ReducedParallel == 5

DefaultParallel == 11

ChooseParallel(monitor, sample) ==
    IF monitor /\ should_reduce_parallelism(sample) THEN ReducedParallel ELSE DefaultParallel

\* n plus the search buffer: +3 up to 5, +4 up to 10, +5 above
WithBuffer(n) == IF n <= 5 THEN n + 3 ELSE IF n <= 10 THEN n + 4 ELSE n + 5

\* the acceptable shortage without its scaling with k
acceptable_shortage_Flat(kk) == 2

\* an acceptable shortage of 5 whatever k is
acceptable_shortage_Wide(kk) == 5

acceptable_shortage(kk) == IF kk <= 10 THEN 2 ELSE 4

normalize_url(url) ==
    LET stripped == RStrip(url, "/")
        nofrag == IF "#" \in Range(stripped) THEN BeforeFirst(stripped, "#") ELSE stripped
    IN  IF "?" \in Range(nofrag) THEN Lower(nofrag) ELSE nofrag

blocked_domains ==
    { <<"r", "e", "d", "d", "i", "t", ".", "c", "o", "m">>,
      <<"f", "a", "c", "e", "b", "o", "o", "k", ".", "c", "o", "m">>,
      <<"t", "w", "i", "t", "t", "e", "r", ".", "c", "o", "m">>,
      <<"x", ".", "c", "o", "m">>,
      <<"i", "n", "s", "t", "a", "g", "r", "a", "m", ".", "c", "o", "m">>,
      <<"t", "i", "k", "t", "o", "k", ".", "c", "o", "m">>,
      <<"p", "i", "n", "t", "e", "r", "e", "s", "t", ".", "c", "o", "m">>,
      <<"y", "o", "u", "t", "u", "b", "e", ".", "c", "o", "m">>,
      <<"m", "a", "s", "t", "o", "d", "o", "n", ".", "s", "o", "c", "i", "a", "l", "/", "@">> }

is_blocked_url(url) == \E blocked \in blocked_domains : Contains(Lower(url), blocked)

NormalizedUrl == [u \in UrlIds |-> normalize_url(UrlText[u])]

BlockedUrl == [u \in UrlIds |-> is_blocked_url(UrlText[u])]

\* the dedup loop over one provider's list: <<admitted URLs, seen set>>
RECURSIVE FilterFrom(_, _, _, _)
FilterFrom(urls, i, seen, kept) ==
    IF i > Len(urls) THEN <<kept, seen>>
    ELSE IF BlockedUrl[urls[i]] THEN FilterFrom(urls, i + 1, seen, kept)
    ELSE IF NormalizedUrl[urls[i]] \notin seen
         THEN FilterFrom(urls, i + 1, seen \cup {NormalizedUrl[urls[i]]}, Append(kept, urls[i]))
         ELSE FilterFrom(urls, i + 1, seen, kept)

\* the dedup loop handing its survivors back in reverse order
FilterCandidates_Reversed(urls, seen) ==
    LET kept == FilterFrom(urls, 1, seen, <<>>)
    IN  <<[i \in 1..Len(kept[1]) |-> kept[1][Len(kept[1]) + 1 - i]], kept[2]>>

\* a dedup loop that starts every provider's list with an empty seen set
FilterCandidates_FreshSeen(urls, seen) == FilterFrom(urls, 1, {}, <<>>)

FilterCandidates(urls, seen) == FilterFrom(urls, 1, seen, <<>>)

MinWords == 50

TitleMarkers ==
    { <<"4", "0", "3">>,
      <<"F", "o", "r", "b", "i", "d", "d", "e", "n">>,
      <<"4", "0", "4">>,
      <<"N", "o", "t", " ", "F", "o", "u", "n", "d">> }

\* the acceptance test without its word-count condition
PassesGate_NoWordCount(item) ==
    /\ item.success
    /\ \A marker \in TitleMarkers : ~Contains(TitleOf(item), marker)
    /\ item.page \in PageIds /\ ReadablePage[item.page]

\* the acceptance test with word_count > 50 in place of >= 50
PassesGate_MoreThanMin(item) ==
    /\ item.success
    /\ item.word_count > MinWords
    /\ \A marker \in TitleMarkers : ~Contains(TitleOf(item), marker)
    /\ item.page \in PageIds /\ ReadablePage[item.page]

\* the acceptance test without its title condition
PassesGate_NoTitle(item) ==
    /\ item.success
    /\ item.word_count >= MinWords
    /\ item.page \in PageIds /\ ReadablePage[item.page]

\* the acceptance test applied to each scraped item
PassesGate(item) ==
    /\ item.success
    /\ item.word_count >= MinWords
    /\ \A marker \in TitleMarkers : ~Contains(TitleOf(item), marker)
    /\ item.page \in PageIds /\ ReadablePage[item.page]

\* a cascade whose evaluation loop never breaks for having reached k
ReachedK_Never(n, kk) == FALSE

\* the break test with > in place of >=
ReachedK_Strict(n, kk) == n > kk

\* len(valid_results) >= k
ReachedK(n, kk) == n >= kk

----------------------------------------------------------------------------
(* The providers: ranked lists a search page may hold for the query *)

ProviderName == <<"brave", "startpage", "yahoo", "yandex">>

RankGood == [i \in 1..GoodCount |-> i]

\* failures, rejected pages, blocked sites and spellings of one site among good pages
RankMixed ==
    <<U_Fail, 1, U_Short, U_Slash, U_Blocked, U_Reddit, U_UpperPath, U_NotFound,
      U_LowerPath, U_Www, U_RedditInfix, U_SlashFragment, U_LowerNotFound, U_Seventy,
      U_SixtyNine, U_UpperQuery, U_LowerQuery, U_Symbols, U_RedditPath, 2, U_BlockedInfix>>

\* two block pages that only provider p lists
RankBlockPages(p) == <<U_BlockPageBase + 2 * p - 1, U_BlockPageBase + 2 * p>>

\* a list that holds sites of the cascade's blocklist only
RankBlocked == <<U_Reddit, U_RedditInfix>>

\* the links a provider's result page may hold, in page order
Rankings(p) == {RankGood, RankMixed, RankBlockPages(p), RankBlocked}

\* s.split(c)[0] for the first of several separators
BeforeAny(s, seps) ==
    LET at == {i \in DOMAIN s : s[i] \in seps}
    IN  IF at = {} THEN s ELSE SubSeq(s, 1, (CHOOSE i \in at : \A j \in at : i <= j) - 1)

\* s.replace(sub, '') of JavaScript: the first occurrence is removed
RemoveFirst(s, sub) ==
    LET at == {i \in 1..(Len(s) - Len(sub) + 1) : SubSeq(s, i, i + Len(sub) - 1) = sub}
    IN  IF at = {} THEN s
        ELSE LET i == CHOOSE x \in at : \A y \in at : x <= y
             IN  SubSeq(s, 1, i - 1) \o SubSeq(s, i + Len(sub), Len(s))

\* new URL(href).hostname
Hostname(url) == Lower(BeforeAny(SubSeq(url, Len(Scheme) + 1, Len(url)), {"/", "?", "#"}))

\* hostname.replace('www.', '')
Domain(url) == RemoveFirst(Hostname(url), <<"w", "w", "w", ".">>)

DomainOf == [u \in UrlIds |-> Domain(UrlText[u])]

\* the substrings every provider's extraction refuses in a link
SocialLinks ==
    { <<"y", "o", "u", "t", "u", "b", "e", ".", "c", "o", "m">>,
      <<"y", "o", "u", "t", "u", ".", "b", "e">>,
      <<"i", "n", "s", "t", "a", "g", "r", "a", "m", ".", "c", "o", "m">>,
      <<"f", "a", "c", "e", "b", "o", "o", "k", ".", "c", "o", "m">>,
      <<"t", "w", "i", "t", "t", "e", "r", ".", "c", "o", "m">>,
      <<"x", ".", "c", "o", "m">>,
      <<"t", "i", "k", "t", "o", "k", ".", "c", "o", "m">> }

\* the substrings provider p refuses in a link
ExcludedLinks(p) ==
    CASE p = 1 -> SocialLinks \cup
                  { <<"b", "r", "a", "v", "e", ".", "c", "o", "m">>,
                    <<"s", "e", "a", "r", "c", "h", ".", "b", "r", "a", "v", "e">>,
                    <<".", "c", "n">>,
                    <<".", "j", "p">>,
                    <<".", "k", "r">>,
                    <<"z", "h", "i", "h", "u", ".", "c", "o", "m">>,
                    <<"b", "a", "i", "d", "u", ".", "c", "o", "m">>,
                    <<"w", "e", "i", "b", "o", ".", "c", "o", "m">> }
      [] p = 2 -> SocialLinks \cup {<<"s", "t", "a", "r", "t", "p", "a", "g", "e", ".", "c", "o", "m">>}
      [] p = 3 -> SocialLinks \cup
                  { <<"y", "a", "h", "o", "o", ".", "c", "o", "m">>,
                    <<"s", "e", "a", "r", "c", "h", ".", "y", "a", "h", "o", "o">> }
      [] p = 4 -> SocialLinks \cup {<<"y", "a", "n", "d", "e", "x", ".">>, <<"y", "a", ".", "r", "u">>}

LinkExcluded ==
    [p \in DOMAIN ProviderName |->
        [u \in UrlIds |-> \E part \in ExcludedLinks(p) : Contains(UrlText[u], part)]]

\* "only 1 URL per domain": every provider but Startpage keeps a set of seen
\* domains
DomainDiversity(p) == p # 2

\* the extraction loop over the links of a result page: <<results so far>>
RECURSIVE ExtractFrom(_, _, _, _, _, _)
ExtractFrom(p, links, i, kk, found, seen_domains) ==
    IF i > Len(links) \/ Len(found) >= kk THEN found
    ELSE LET href == links[i]
             keep == /\ ~(DomainDiversity(p) /\ DomainOf[href] \in seen_domains)
                     /\ ~LinkExcluded[p][href]
                     /\ href \notin Range(found)
         IN  ExtractFrom(p, links, i + 1, kk,
                         IF keep THEN Append(found, href) ELSE found,
                         IF keep THEN seen_domains \cup {DomainOf[href]} ELSE seen_domains)

\* search_brave_playwright, search_startpage, search_yahoo, search_yandex on a
\* result page: urls[:k]
SearchLinks(p, links, kk) == Take(ExtractFrom(p, links, 1, kk, <<>>, {}), kk)

\* what one provider invocation hands back: an exception (or no result, which
\* the search functions turn into an empty list), or the URLs extracted from
\* a result page
ProviderOutcomes(p, want) ==
    {[raised |-> TRUE, urls |-> <<>>]}
        \cup {[raised |-> SearchLinks(p, r, want) = <<>>, urls |-> SearchLinks(p, r, want)] :
                  r \in Rankings(p)}

\* image URLs the image provider may hold
ImageRankings == {<<>>, <<1, 2>>, RankGood}

\* a dummy ScrapedContent marked as failed
ImageItem_Failed(u) ==
    [url |-> u, page |-> "image", success |-> FALSE, word_count |-> 0, error |-> "None"]

\* the dummy ScrapedContent of image mode
ImageItem(u) ==
    [url |-> u, page |-> "image", success |-> TRUE, word_count |-> 0, error |-> "None"]

----------------------------------------------------------------------------
(* search_and_scrape: the state machine *)

Init ==
    /\ pc = "entry"
    /\ k \in 1..MaxK
    /\ include_images \in BOOLEAN
    /\ has_monitor \in BOOLEAN
    /\ has_context \in BOOLEAN
    /\ mem_sample \in (IF has_monitor THEN MemSamples ELSE {NoSample})
    /\ remaining = IF has_context THEN MaxRemaining ELSE NoDeadline
    /\ max_parallel = 0
    /\ search_k = 0
    /\ seen_normalized = {}
    /\ prov = 0
    /\ unique_urls = <<>>
    /\ batch_start = 0
    /\ wave = <<>>
    /\ scraped = <<>>
    /\ eval_idx = 0
    /\ valid_results = <<>>
    /\ engines_used = <<>>
    /\ brave_failed = FALSE
    /\ queries = <<>>
    /\ fetched = <<>>
    /\ deadline_hit = FALSE
    /\ stop_at_start = FALSE
    /\ actual_engine = ""
    /\ result = <<>>
    /\ task_state = <<>>
    /\ open_pages = {}
    /\ results = <<>>
    /\ query = <<"q">>
    /\ engine = "brave"
    /\ status_code = 0
    /\ browser_created = FALSE
    /\ input_text = <<>>
    /\ verdict = FALSE
    /\ UploadIdle

\* what the execution context's clock may show when it is read next: time only
\* runs down; readings below the buffer are all alike and end at the buffer - 1
ClockReadings ==
    IF has_monitor /\ has_context THEN (DeadlineBuffer - 1)..remaining ELSE {remaining}

\* a deadline check that only the primary's block makes
DeadlineCheck_PrimaryOnly(left) ==
    prov <= 1 /\ has_monitor /\ has_context /\ should_return_partial_results(has_context, left)

\* "if self.resource_monitor and lambda_context: if should_return_partial_results"
DeadlineCheck(left) ==
    has_monitor /\ has_context /\ should_return_partial_results(has_context, left)

\* "if engine not in ["brave"]" raises ValueError
EngineSupported(e) == e \in {"brave"}

\* image mode: the image provider's URLs become the result
ImageSearch ==
    /\ pc = "entry"
    /\ EngineSupported(engine)
    /\ include_images
    /\ \E r \in ImageRankings :
          /\ result' = [i \in 1..Len(Take(r, k)) |-> ImageItem(r[i])]
          /\ queries' = Append(queries, [engine |-> "bing", want |-> k,
                                         urls |-> Take(r, k), raised |-> FALSE])
    /\ actual_engine' = "bing"
    /\ pc' = "done"
    /\ UNCHANGED scrape_vars
    /\ UNCHANGED readable_vars
    /\ UNCHANGED upload_vars
    /\ browser_created' = TRUE
    /\ UNCHANGED <<query, engine, status_code>>
    /\ UNCHANGED <<k, include_images, has_monitor, has_context, mem_sample, remaining,
                   max_parallel, search_k, seen_normalized, prov, unique_urls, batch_start,
                   wave, scraped, eval_idx, valid_results, engines_used, brave_failed,
                   fetched, deadline_hit, stop_at_start>>

\* content mode: the budget and the search size are fixed
StartContent ==
    /\ pc = "entry"
    /\ EngineSupported(engine)
    /\ ~include_images
    /\ max_parallel' = ChooseParallel(has_monitor, mem_sample)
    /\ search_k' = WithBuffer(k)
    /\ \E left \in ClockReadings :
          /\ remaining' = left
          /\ stop_at_start' = DeadlineCheck(left)
    /\ prov' = 1
    /\ pc' = "query"
    /\ UNCHANGED scrape_vars
    /\ UNCHANGED readable_vars
    /\ UNCHANGED upload_vars
    /\ browser_created' = TRUE
    /\ UNCHANGED <<query, engine, status_code>>
    /\ UNCHANGED <<k, include_images, has_monitor, has_context, mem_sample,
                   seen_normalized, unique_urls, batch_start, wave, scraped, eval_idx,
                   valid_results, engines_used, brave_failed, queries, fetched,
                   deadline_hit, actual_engine, result>>

\* a cascade that never takes earlier providers to have failed
PreviousFailed_Never(p) == FALSE

\* "previous providers failed" as each fallback block computes it
PreviousFailed(p) ==
    IF p = 2 THEN brave_failed ELSE brave_failed /\ Len(valid_results) = 0

\* every provider asked for the full search size
WantCount_Full(p) == search_k

\* the number of URLs provider p is asked for
WantCount(p) ==
    IF p = 1 \/ PreviousFailed(p) THEN search_k ELSE WithBuffer(k - Len(valid_results))

\* one provider is searched and its list is filtered against seen_normalized
QueryProvider ==
    /\ pc = "query"
    /\ \E out \in ProviderOutcomes(prov, WantCount(prov)) :
          LET filtered == FilterCandidates(out.urls, seen_normalized) IN
          /\ queries' = Append(queries, [engine |-> ProviderName[prov],
                                         want |-> WantCount(prov),
                                         urls |-> out.urls, raised |-> out.raised])
          /\ unique_urls' = filtered[1]
          /\ seen_normalized' = filtered[2]
          /\ brave_failed' = IF prov = 1 THEN Len(filtered[1]) = 0 ELSE brave_failed
          /\ pc' = IF Len(filtered[1]) = 0 THEN "after" ELSE "precheck"
    /\ scraped' = <<>>
    /\ UNCHANGED scrape_vars
    /\ UNCHANGED readable_vars
    /\ UNCHANGED upload_vars
    /\ UNCHANGED handler_vars
    /\ UNCHANGED <<k, include_images, has_monitor, has_context, mem_sample, remaining,
                   max_parallel, search_k, prov, batch_start, wave, eval_idx,
                   valid_results, engines_used, fetched, deadline_hit, stop_at_start,
                   actual_engine, result>>

\* the deadline check made before a provider's batch is scraped
PreScrapeCheck ==
    /\ pc = "precheck"
    /\ \E left \in ClockReadings :
          /\ remaining' = left
          /\ IF DeadlineCheck(left)
             THEN /\ deadline_hit' = TRUE
                  /\ valid_results' = IF prov = 1 THEN <<>> ELSE valid_results
                  /\ pc' = "after"
             ELSE /\ pc' = "scrape"
                  /\ UNCHANGED <<deadline_hit, valid_results>>
    /\ batch_start' = 0
    /\ UNCHANGED scrape_vars
    /\ UNCHANGED readable_vars
    /\ UNCHANGED upload_vars
    /\ UNCHANGED handler_vars
    /\ UNCHANGED <<k, include_images, has_monitor, has_context, mem_sample,
                   max_parallel, search_k, seen_normalized, prov, unique_urls, wave,
                   scraped, eval_idx, engines_used, brave_failed, queries, fetched,
                   stop_at_start, actual_engine, result>>

\* the batch end taken one URL too far
BatchEnd_OffByOne(start, parallel, n) == Min(start + parallel + 1, n)

\* batch_end = min(batch_start + max_parallel, len(urls))
BatchEnd(start, parallel, n) == Min(start + parallel, n)

\* a budget that is computed again from the memory reading for every wave
WaveBudget_Reread == ChooseParallel(has_monitor, mem_sample)

\* scrape_parallel_playwright(unique_urls, context, max_parallel=max_parallel):
\* the budget every provider's batch is scraped with
WaveBudget == max_parallel

\* scrape_parallel_playwright: the tasks of the next wave are created
WaveStart ==
    /\ pc = "scrape"
    /\ wave' = SubSeq(unique_urls, batch_start + 1,
                      BatchEnd(batch_start, WaveBudget, Len(unique_urls)))
    /\ fetched' = fetched \o [i \in 1..Len(wave') |->
                                  [engine |-> ProviderName[prov], url |-> wave'[i]]]
    /\ pc' = "gather"
    /\ UNCHANGED scrape_vars
    /\ UNCHANGED readable_vars
    /\ UNCHANGED upload_vars
    /\ UNCHANGED handler_vars
    /\ UNCHANGED <<k, include_images, has_monitor, has_context, mem_sample, remaining,
                   max_parallel, search_k, seen_normalized, prov, unique_urls, batch_start,
                   scraped, eval_idx, valid_results, engines_used, brave_failed, queries,
                   deadline_hit, stop_at_start, actual_engine, result>>

\* scrape_parallel_playwright: the wave's results are gathered in input order
WaveGather ==
    /\ pc = "gather"
    /\ scraped' = scraped \o [i \in 1..Len(wave) |-> ScrapedOf[wave[i]]]
    /\ wave' = <<>>
    /\ batch_start' = batch_start + WaveBudget
    /\ IF batch_start + WaveBudget >= Len(unique_urls)
       THEN pc' = "evaluate" /\ eval_idx' = 1
       ELSE pc' = "scrape" /\ UNCHANGED eval_idx
    /\ UNCHANGED scrape_vars
    /\ UNCHANGED readable_vars
    /\ UNCHANGED upload_vars
    /\ UNCHANGED handler_vars
    /\ UNCHANGED <<k, include_images, has_monitor, has_context, mem_sample, remaining,
                   max_parallel, search_k, seen_normalized, prov, unique_urls,
                   valid_results, engines_used, brave_failed, queries, fetched,
                   deadline_hit, stop_at_start, actual_engine, result>>

\* an accepted item put in front of the list
Accept_InFront(valid, item) == <<item>> \o valid

\* valid_results.append(content)
Accept(valid, item) == Append(valid, item)

\* one iteration of "for content in all_scraped": the gate, the break at k
\* results, then the deadline check
EvaluateItem ==
    /\ pc = "evaluate"
    /\ LET item == scraped[eval_idx]
           accepted == IF PassesGate(item) THEN Accept(valid_results, item)
                       ELSE valid_results
           full == PassesGate(item) /\ ReachedK(Len(accepted), k)
       IN  /\ valid_results' = accepted
           /\ \E left \in (IF full THEN {remaining} ELSE ClockReadings) :
                 LET stop == ~full /\ DeadlineCheck(left) IN
                 /\ remaining' = left
                 /\ deadline_hit' = (deadline_hit \/ stop)
                 /\ IF full \/ stop \/ eval_idx = Len(scraped)
                    THEN pc' = "after" /\ UNCHANGED eval_idx
                    ELSE pc' = "evaluate" /\ eval_idx' = eval_idx + 1
    /\ UNCHANGED scrape_vars
    /\ UNCHANGED readable_vars
    /\ UNCHANGED upload_vars
    /\ UNCHANGED handler_vars
    /\ UNCHANGED <<k, include_images, has_monitor, has_context, mem_sample,
                   max_parallel, search_k, seen_normalized, prov, unique_urls, batch_start,
                   wave, scraped, engines_used, brave_failed, queries, fetched,
                   stop_at_start, actual_engine, result>>

\* engines_used with every fallback recorded as soon as it was queried
RecordEngine_Always(p, used, valid, attempts) ==
    IF p = 1
    THEN IF Len(valid) > 0 THEN <<ProviderName[1]>> ELSE <<>>
    ELSE Append(used, ProviderName[p])

\* engines_used with the primary recorded whatever it contributed
RecordEngine_BraveAlways(p, used, valid, attempts) ==
    IF p = 1
    THEN <<ProviderName[1]>>
    ELSE IF Len(attempts) > 0 THEN Append(used, ProviderName[p]) ELSE used

\* engines_used that never records a fallback
RecordEngine_PrimaryOnly(p, used, valid, attempts) ==
    IF p = 1
    THEN IF Len(valid) > 0 THEN <<ProviderName[1]>> ELSE <<>>
    ELSE used

\* engines_used after provider p's block
RecordEngine(p, used, valid, attempts) ==
    IF p = 1
    THEN IF Len(valid) > 0 THEN <<ProviderName[1]>> ELSE <<>>
    ELSE IF Len(attempts) > 0 THEN Append(used, ProviderName[p]) ELSE used

\* the bookkeeping that closes a provider's block
AfterProvider ==
    /\ pc = "after"
    /\ engines_used' = RecordEngine(prov, engines_used, valid_results, scraped)
    /\ IF prov < 4
       THEN pc' = "consider" /\ prov' = prov + 1
       ELSE pc' = "finalize" /\ UNCHANGED prov
    /\ UNCHANGED scrape_vars
    /\ UNCHANGED readable_vars
    /\ UNCHANGED upload_vars
    /\ UNCHANGED handler_vars
    /\ UNCHANGED <<k, include_images, has_monitor, has_context, mem_sample, remaining,
                   max_parallel, search_k, seen_normalized, unique_urls, batch_start,
                   wave, scraped, eval_idx, valid_results, brave_failed, queries, fetched,
                   deadline_hit, stop_at_start, actual_engine, result>>

\* a cascade that passes over its first fallback and opens the later ones on
\* any shortfall
ShouldTry_NotSecond(p) == p > 2 /\ k - Len(valid_results) > 0

\* "if needed > 0 and (previous_failed or needed > acceptable_shortage)"
ShouldTry(p) ==
    LET needed == k - Len(valid_results)
    IN  needed > 0 /\ (PreviousFailed(p) \/ needed > acceptable_shortage(k))

\* the test that opens each fallback block
ConsiderFallback ==
    /\ pc = "consider"
    /\ IF ShouldTry(prov)
       THEN pc' = "query" /\ UNCHANGED prov
       ELSE IF prov < 4
            THEN pc' = "consider" /\ prov' = prov + 1
            ELSE pc' = "finalize" /\ UNCHANGED prov
    /\ UNCHANGED scrape_vars
    /\ UNCHANGED readable_vars
    /\ UNCHANGED upload_vars
    /\ UNCHANGED handler_vars
    /\ UNCHANGED <<k, include_images, has_monitor, has_context, mem_sample, remaining,
                   max_parallel, search_k, seen_normalized, unique_urls, batch_start,
                   wave, scraped, eval_idx, valid_results, engines_used, brave_failed,
                   queries, fetched, deadline_hit, stop_at_start, actual_engine, result>>

RECURSIVE JoinPlus(_)
JoinPlus(names) ==
    IF Len(names) = 1 THEN names[1] ELSE names[1] \o "+" \o JoinPlus(Tail(names))

\* the identifier as the plain join of the recorded names
EngineName_JoinOnly(used) == IF Len(used) = 0 THEN "" ELSE JoinPlus(used)

\* the composite provider identifier
EngineName(used) == IF Len(used) = 0 THEN "none" ELSE JoinPlus(used)

\* the result is assembled: valid_results[:k]
Finalize ==
    /\ pc = "finalize"
    /\ actual_engine' = EngineName(engines_used)
    /\ result' = Take(valid_results, k)
    /\ pc' = "done"
    /\ UNCHANGED scrape_vars
    /\ UNCHANGED readable_vars
    /\ UNCHANGED upload_vars
    /\ UNCHANGED handler_vars
    /\ UNCHANGED <<k, include_images, has_monitor, has_context, mem_sample, remaining,
                   max_parallel, search_k, seen_normalized, prov, unique_urls, batch_start,
                   wave, scraped, eval_idx, valid_results, engines_used, brave_failed,
                   queries, fetched, deadline_hit, stop_at_start>>

Next ==
    \/ ImageSearch
    \/ StartContent
    \/ QueryProvider
    \/ PreScrapeCheck
    \/ WaveStart
    \/ WaveGather
    \/ EvaluateItem
    \/ AfterProvider
    \/ ConsiderFallback
    \/ Finalize

Spec == Init /\ [][Next]_vars

----------------------------------------------------------------------------
(* The cascade while the process's memory use moves: what psutil reports may *)
(* change between any two steps of a request                                 *)

\* the requests of this view: content mode with a monitor, k large enough for
\* a batch of more than ReducedParallel URLs
MemoryKs == 6..7

InitMemory ==
    /\ Init
    /\ k \in MemoryKs
    /\ ~include_images
    /\ has_monitor
    /\ ~has_context

\* the memory reading moves to another sample, across 80% in either direction
MemoryChange ==
    /\ pc # "done"
    /\ has_monitor
    /\ mem_sample' \in MemSamples \ {mem_sample}
    /\ UNCHANGED <<pc, k, include_images, has_monitor, has_context, remaining,
                   max_parallel, search_k, seen_normalized, prov, unique_urls, batch_start,
                   wave, scraped, eval_idx, valid_results, engines_used, brave_failed,
                   queries, fetched, deadline_hit, stop_at_start, actual_engine, result>>
    /\ UNCHANGED scrape_vars
    /\ UNCHANGED readable_vars
    /\ UNCHANGED upload_vars
    /\ UNCHANGED handler_vars

NextMemory ==
    \/ MemoryChange
    \/ StartContent
    \/ QueryProvider
    \/ PreScrapeCheck
    \/ WaveStart
    \/ WaveGather
    \/ EvaluateItem
    \/ AfterProvider
    \/ ConsiderFallback
    \/ Finalize

SpecMemory == InitMemory /\ [][NextMemory]_vars

----------------------------------------------------------------------------
(* scrape_parallel_playwright task by task: every scrape_in_new_tab of a wave *)
(* is a task of its own, and the tasks of a wave interleave freely            *)

\* the URLs handed to the scraper when it is run on its own
ScrapeList == <<1, U_Fail, 2, U_Short, 3, 4>>

\* the entry of the results array that no task has filled
NoResult == [url |-> 0, page |-> "none", success |-> FALSE, word_count |-> 0,
             error |-> "unset"]

\* the error result of scrape_in_new_tab's own except branch
TabFailure(u) ==
    [url |-> u, page |-> "none", success |-> FALSE, word_count |-> 0,
     error |-> "Scraping failed"]

InitScrape ==
    /\ pc = "sp_call"
    /\ unique_urls \in {Take(ScrapeList, n) : n \in 0..MaxScrapeUrls}
    /\ max_parallel \in 1..MaxTabs
    /\ k = 1
    /\ include_images = FALSE
    /\ has_monitor = FALSE
    /\ has_context = FALSE
    /\ mem_sample = NoSample
    /\ remaining = NoDeadline
    /\ search_k = 0
    /\ seen_normalized = {}
    /\ prov = 0
    /\ batch_start = 0
    /\ wave = <<>>
    /\ scraped = <<>>
    /\ eval_idx = 0
    /\ valid_results = <<>>
    /\ engines_used = <<>>
    /\ brave_failed = FALSE
    /\ queries = <<>>
    /\ fetched = <<>>
    /\ deadline_hit = FALSE
    /\ stop_at_start = FALSE
    /\ actual_engine = ""
    /\ result = <<>>
    /\ task_state = <<>>
    /\ open_pages = {}
    /\ results = <<>>
    /\ query = <<"q">>
    /\ engine = "brave"
    /\ status_code = 0
    /\ browser_created = FALSE
    /\ input_text = <<>>
    /\ verdict = FALSE
    /\ UploadIdle

\* "if not urls: return []", else results = [None] * len(urls)
ScrapeCall ==
    /\ pc = "sp_call"
    /\ IF Len(unique_urls) = 0
       THEN pc' = "sp_returned" /\ UNCHANGED results
       ELSE pc' = "sp_loop" /\ results' = [i \in 1..Len(unique_urls) |-> NoResult]
    /\ UNCHANGED <<unique_urls, max_parallel, batch_start, wave, scraped, fetched,
                   task_state, open_pages>>
    /\ UNCHANGED request_vars

\* the tasks of the next batch are created and handed to asyncio.gather
WaveCreate ==
    /\ pc = "sp_loop"
    /\ batch_start < Len(unique_urls)
    /\ LET batch_end == BatchEnd(batch_start, max_parallel, Len(unique_urls)) IN
       /\ wave' = SubSeq(unique_urls, batch_start + 1, batch_end)
       /\ task_state' = [i \in (batch_start + 1)..batch_end |->
                            [at |-> "pending", value |-> NoResult, opens |-> 0, closes |-> 0]]
    /\ pc' = "sp_gather"
    /\ UNCHANGED <<unique_urls, max_parallel, batch_start, scraped, fetched, open_pages,
                   results>>
    /\ UNCHANGED request_vars

\* new_page = await context.new_page(): a page is opened, or the call raises
\* and the task returns its error result (there is no page to close)
TaskNewPage(i) ==
    /\ pc = "sp_gather"
    /\ i \in DOMAIN task_state
    /\ task_state[i].at = "pending"
    /\ \/ /\ task_state' = [task_state EXCEPT ![i].at = "open", ![i].opens = @ + 1]
          /\ open_pages' = open_pages \cup {i}
          /\ fetched' = Append(fetched, [engine |-> "direct", url |-> unique_urls[i]])
       \/ /\ task_state' = [task_state EXCEPT
                               ![i].at = "finished",
                               ![i].value = TabFailure(unique_urls[i])]
          /\ UNCHANGED <<open_pages, fetched>>
    /\ UNCHANGED <<pc, unique_urls, max_parallel, batch_start, wave, scraped, results>>
    /\ UNCHANGED request_vars

\* result = await scrape_url_playwright(url, new_page, timeout): the page loads
\* as the site serves it, or the navigation fails
TaskScrape(i) ==
    /\ pc = "sp_gather"
    /\ i \in DOMAIN task_state
    /\ task_state[i].at = "open"
    /\ \E p \in {PageOf[unique_urls[i]], "fail"} :
          task_state' = [task_state EXCEPT
                            ![i].at = "closing",
                            ![i].value = scrape_url_playwright(unique_urls[i], p)]
    /\ UNCHANGED <<pc, unique_urls, max_parallel, batch_start, wave, scraped, fetched,
                   open_pages, results>>
    /\ UNCHANGED request_vars

\* a finally block that leaves the page open
ClosePage_Skipped(pages, i) == pages

\* the pages open after new_page.close() of task i
ClosePage(pages, i) == pages \ {i}

\* finally: "if new_page: await new_page.close()"; an exception of close() is
\* logged and swallowed, the task returns its result either way
TaskClosePage(i) ==
    /\ pc = "sp_gather"
    /\ i \in DOMAIN task_state
    /\ task_state[i].at = "closing"
    /\ task_state' = [task_state EXCEPT ![i].at = "finished", ![i].closes = @ + 1]
    /\ open_pages' = ClosePage(open_pages, i)
    /\ UNCHANGED <<pc, unique_urls, max_parallel, batch_start, wave, scraped, fetched,
                   results>>
    /\ UNCHANGED request_vars

\* results stored without the items of failed fetches
StoreResults_SkipFailed(res, tasks, start) ==
    [i \in DOMAIN res |->
        IF i \in DOMAIN tasks /\ tasks[i].value.success THEN tasks[i].value ELSE res[i]]

\* results stored at the position inside the batch instead of batch_start + i
StoreResults_BatchLocal(res, tasks, start) ==
    [i \in DOMAIN res |->
        IF (i + start) \in DOMAIN tasks THEN tasks[i + start].value ELSE res[i]]

\* "index, result = item; results[index] = result" for every task of the batch,
\* where index = batch_start + i
StoreResults(res, tasks, start) ==
    [i \in DOMAIN res |-> IF i \in DOMAIN tasks THEN tasks[i].value ELSE res[i]]

\* a gather that returns as soon as one task of the batch has finished
GatherDone_FirstCompleted(tasks) == \E i \in DOMAIN tasks : tasks[i].at = "finished"

\* await asyncio.gather(*tasks, return_exceptions=True): every task has returned
GatherDone(tasks) == \A i \in DOMAIN tasks : tasks[i].at = "finished"

\* asyncio.gather returns once every task of the batch has finished; the
\* results are stored by index and the loop moves to the next batch
WaveJoin ==
    /\ pc = "sp_gather"
    /\ GatherDone(task_state)
    /\ results' = StoreResults(results, task_state, batch_start)
    /\ task_state' = <<>>
    /\ wave' = <<>>
    /\ batch_start' = batch_start + max_parallel
    /\ pc' = "sp_loop"
    /\ UNCHANGED <<unique_urls, max_parallel, scraped, fetched, open_pages>>
    /\ UNCHANGED request_vars

\* return results
ScrapeReturn ==
    /\ pc = "sp_loop"
    /\ batch_start >= Len(unique_urls)
    /\ scraped' = results
    /\ pc' = "sp_returned"
    /\ UNCHANGED <<unique_urls, max_parallel, batch_start, wave, fetched, task_state,
                   open_pages, results>>
    /\ UNCHANGED request_vars

NextScrape ==
    \/ ScrapeCall
    \/ WaveCreate
    \/ \E i \in 1..(MaxScrapeUrls + 1) : TaskNewPage(i)
    \/ \E i \in 1..(MaxScrapeUrls + 1) : TaskScrape(i)
    \/ \E i \in 1..(MaxScrapeUrls + 1) : TaskClosePage(i)
    \/ WaveJoin
    \/ ScrapeReturn

SpecScrape == InitScrape /\ [][NextScrape]_vars

----------------------------------------------------------------------------
(* lambda_handler: the request is validated, search_and_scrape is run and    *)
(* its outcome is turned into a response                                     *)

MaxQueryLength == 500

MinRequestK == 1

MaxRequestK == 20

\* s.strip()
Strip(s) ==
    LET solid == {i \in DOMAIN s : ~IsSpace(s[i])}
    IN  IF solid = {} THEN <<>>
        ELSE SubSeq(s, CHOOSE i \in solid : \A j \in solid : i <= j,
                       CHOOSE i \in solid : \A j \in solid : i >= j)

\* the range test on k without its lower end
KInRange_NoLower(kk) == kk <= MaxRequestK

\* not (k < 1 or k > 20)
KInRange(kk) == ~(kk < MinRequestK \/ kk > MaxRequestK)

\* the engines ContentSearchRequest.validate lets through
ValidatedEngines == {"brave", "startpage", "yahoo", "yandex"}

\* ImageSearchRequest.validate: the ValueError it raises, or "ok"
ImageSearchRequest_validate(q, kk) ==
    IF Len(q) = 0 \/ Len(Strip(q)) = 0 THEN "Query cannot be empty"
    ELSE IF Len(q) > MaxQueryLength THEN "Query must be 1-500 characters"
    ELSE IF ~KInRange(kk) THEN "k must be between 1 and 20"
    ELSE "ok"

\* ContentSearchRequest.validate: the ValueError it raises, or "ok"
ContentSearchRequest_validate(q, kk, e) ==
    IF ImageSearchRequest_validate(q, kk) # "ok" THEN ImageSearchRequest_validate(q, kk)
    ELSE IF e \notin ValidatedEngines THEN "Unsupported engine"
    ELSE "ok"

\* the query texts of the requests: none, blank, one character, padded, the
\* longest one allowed, and one character more
RequestQueries ==
    { <<>>, <<" ", "\t">>, <<"q">>, <<" ", "q", " ">>,
      [i \in 1..MaxQueryLength |-> "q"], [i \in 1..(MaxQueryLength + 1) |-> "q"] }

RequestKs == {MinRequestK - 1, MinRequestK, MaxRequestK, MaxRequestK + 1}

RequestEngines == {"brave", "startpage", "bing"}

\* the handler is invoked: it builds its own ResourceMonitor and passes the
\* execution context on (None when it is run locally)
InitHandler ==
    /\ pc = "handler"
    /\ query \in RequestQueries
    /\ k \in RequestKs
    /\ engine \in RequestEngines
    /\ include_images \in BOOLEAN
    /\ has_monitor = TRUE
    /\ has_context \in BOOLEAN
    /\ mem_sample \in MemSamples
    /\ remaining = IF has_context THEN MaxRemaining ELSE NoDeadline
    /\ max_parallel = 0
    /\ search_k = 0
    /\ seen_normalized = {}
    /\ prov = 0
    /\ unique_urls = <<>>
    /\ batch_start = 0
    /\ wave = <<>>
    /\ scraped = <<>>
    /\ eval_idx = 0
    /\ valid_results = <<>>
    /\ engines_used = <<>>
    /\ brave_failed = FALSE
    /\ queries = <<>>
    /\ fetched = <<>>
    /\ deadline_hit = FALSE
    /\ stop_at_start = FALSE
    /\ actual_engine = ""
    /\ result = <<>>
    /\ task_state = <<>>
    /\ open_pages = {}
    /\ results = <<>>
    /\ status_code = 0
    /\ browser_created = FALSE
    /\ input_text = <<>>
    /\ verdict = FALSE
    /\ UploadIdle

\* what search_and_scrape leaves alone before its browser exists
cascade_vars == <<k, include_images, has_monitor, has_context, mem_sample, remaining,
                  max_parallel, search_k, seen_normalized, prov, unique_urls, batch_start,
                  wave, scraped, eval_idx, valid_results, engines_used, brave_failed,
                  queries, fetched, deadline_hit, stop_at_start, actual_engine, result>>

\* the request object is built and validated; a ValueError is answered with
\* status 400, otherwise search_and_scrape is called
HandlerValidate ==
    /\ pc = "handler"
    /\ LET answer == IF include_images THEN ImageSearchRequest_validate(query, k)
                     ELSE ContentSearchRequest_validate(query, k, engine)
       IN  IF answer = "ok"
           THEN pc' = "entry" /\ UNCHANGED status_code
           ELSE pc' = "responded" /\ status_code' = 400
    /\ UNCHANGED <<query, engine, browser_created>>
    /\ UNCHANGED cascade_vars
    /\ UNCHANGED scrape_vars
    /\ UNCHANGED readable_vars
    /\ UNCHANGED upload_vars

\* search_and_scrape raises ValueError for an engine other than "brave"
RejectEngine ==
    /\ pc = "entry"
    /\ ~EngineSupported(engine)
    /\ pc' = "raised"
    /\ UNCHANGED handler_vars
    /\ UNCHANGED cascade_vars
    /\ UNCHANGED scrape_vars
    /\ UNCHANGED readable_vars
    /\ UNCHANGED upload_vars

\* "except Exception" of the handler: status 500
HandlerError ==
    /\ pc = "raised"
    /\ status_code' = 500
    /\ pc' = "responded"
    /\ UNCHANGED <<query, engine, browser_created>>
    /\ UNCHANGED cascade_vars
    /\ UNCHANGED scrape_vars
    /\ UNCHANGED readable_vars
    /\ UNCHANGED upload_vars

\* the result of search_and_scrape is returned with status 200
HandlerRespond ==
    /\ pc = "done"
    /\ status_code' = 200
    /\ pc' = "responded"
    /\ UNCHANGED <<query, engine, browser_created>>
    /\ UNCHANGED cascade_vars
    /\ UNCHANGED scrape_vars
    /\ UNCHANGED readable_vars
    /\ UNCHANGED upload_vars

NextHandler ==
    \/ HandlerValidate
    \/ RejectEngine
    \/ HandlerError
    \/ HandlerRespond
    \/ ImageSearch
    \/ StartContent
    \/ QueryProvider
    \/ PreScrapeCheck
    \/ WaveStart
    \/ WaveGather
    \/ EvaluateItem
    \/ AfterProvider
    \/ ConsiderFallback
    \/ Finalize

SpecHandler == InitHandler /\ [][NextHandler]_vars

----------------------------------------------------------------------------
(* is_llm_readable called on its own, on every short text over a letter, a   *)
(* blank and a symbol, on texts with digits, capitals, tabs and line breaks, *)
(* and on the content of every page of the model                             *)

\* longest text that is enumerated character by character
MaxTextLen == 11

ReadableAlphabet == {"a", " ", "$"}

ReadableSamples ==
    { <<"A", "1", "b", "2", "C", "3", "d", "4", "e", "5">>,
      <<"A", "1", "b", "2", "C", "3", "d", "$", "%", "#">>,
      <<"A", "1", "b", "2", "C", "3", "$", "$", "%", "#">>,
      <<"a", "\t", "b", "\n", "c", " ", "d", "$", "%", "#">>,
      <<"!", "\t", "b", "\n", "c", " ", "d", "$", "%", "#">>,
      <<"Z", "9", "z", "0", "-", "-", "-", "-", "-">> }

ReadableInputs ==
    UNION {[1..n -> ReadableAlphabet] : n \in 0..MaxTextLen}
        \cup ReadableSamples
        \cup {PageContent[p] : p \in PageIds}

InitReadable ==
    /\ pc = "rd_call"
    /\ input_text \in ReadableInputs
    /\ verdict = FALSE
    /\ UploadIdle
    /\ k = 1
    /\ include_images = FALSE
    /\ has_monitor = FALSE
    /\ has_context = FALSE
    /\ mem_sample = NoSample
    /\ remaining = NoDeadline
    /\ max_parallel = 0
    /\ search_k = 0
    /\ seen_normalized = {}
    /\ prov = 0
    /\ unique_urls = <<>>
    /\ batch_start = 0
    /\ wave = <<>>
    /\ scraped = <<>>
    /\ eval_idx = 0
    /\ valid_results = <<>>
    /\ engines_used = <<>>
    /\ brave_failed = FALSE
    /\ queries = <<>>
    /\ fetched = <<>>
    /\ deadline_hit = FALSE
    /\ stop_at_start = FALSE
    /\ actual_engine = ""
    /\ result = <<>>
    /\ task_state = <<>>
    /\ open_pages = {}
    /\ results = <<>>
    /\ query = <<"q">>
    /\ engine = "brave"
    /\ status_code = 0
    /\ browser_created = FALSE

\* is_llm_readable(text) returns
ReadableCall ==
    /\ pc = "rd_call"
    /\ verdict' = is_llm_readable(input_text)
    /\ pc' = "rd_returned"
    /\ UNCHANGED input_text
    /\ UNCHANGED upload_vars
    /\ UNCHANGED cascade_vars
    /\ UNCHANGED scrape_vars
    /\ UNCHANGED handler_vars

NextReadable == ReadableCall

SpecReadable == InitReadable /\ [][NextReadable]_vars

----------------------------------------------------------------------------
(* upload_image_to_s3 (s3_uploader.py) called on its own: the image is      *)
(* downloaded and then put into the bucket, each stage in a retry loop      *)

\* largest max_retries a call is made with
MaxRetries == 3

\* "" and a non-empty text, for image_url and for bucket
ImageUrls == { <<>>, <<"u">> }

Buckets == { <<>>, <<"b">> }

\* what datetime.now() may read when the key is generated
Timestamps == {"t1", "t2"}

\* what one session.get may end with: a response with its status, or an
\* exception of the try block
DownloadReplies == {"200", "404", "TimeoutError", "ClientError"}

\* what one put_object may end with: it returns, or an exception
PutReplies == {"ok", "ClientError", "BotoCoreError"}

\* what "except ... as e" stores after a failed download attempt: a status
\* other than 200 raises S3UploadError inside the try block, and
\* "except Exception" catches it like the others
DownloadError(reply) == IF reply = "200" THEN "None"
                        ELSE IF reply = "404" THEN "S3UploadError"
                        ELSE reply

\* one entry of the log of calls
Call(op, a, ok, secs) == [op |-> op, attempt |-> a, ok |-> ok, secs |-> secs]

\* a variant of Backoff that sleeps after every failed attempt
Backoff_Always(a, n) == << Call("sleep", a, TRUE, 2^a) >>

\* "if attempt < max_retries - 1: await asyncio.sleep(2 ** attempt)"
Backoff(a, n) == IF a < n - 1 THEN << Call("sleep", a, TRUE, 2^a) >> ELSE <<>>

InitUpload ==
    /\ pc = "up_call"
    /\ image_url \in ImageUrls
    /\ bucket \in Buckets
    /\ max_retries \in 0..MaxRetries
    /\ s3_key = <<>>
    /\ attempt = 0
    /\ image_data = "None"
    /\ last_error = "None"
    /\ calls = <<>>
    /\ outcome = [kind |-> "None", value |-> <<>>]
    /\ input_text = <<>>
    /\ verdict = FALSE
    /\ k = 1
    /\ include_images = TRUE
    /\ has_monitor = FALSE
    /\ has_context = FALSE
    /\ mem_sample = NoSample
    /\ remaining = NoDeadline
    /\ max_parallel = 0
    /\ search_k = 0
    /\ seen_normalized = {}
    /\ prov = 0
    /\ unique_urls = <<>>
    /\ batch_start = 0
    /\ wave = <<>>
    /\ scraped = <<>>
    /\ eval_idx = 0
    /\ valid_results = <<>>
    /\ engines_used = <<>>
    /\ brave_failed = FALSE
    /\ queries = <<>>
    /\ fetched = <<>>
    /\ deadline_hit = FALSE
    /\ stop_at_start = FALSE
    /\ actual_engine = ""
    /\ result = <<>>
    /\ task_state = <<>>
    /\ open_pages = {}
    /\ results = <<>>
    /\ query = <<"q">>
    /\ engine = "brave"
    /\ status_code = 0
    /\ browser_created = FALSE

\* the arguments are checked and the key is generated: the prefix, the clock
\* reading and the digest of the URL
UploadStart ==
    /\ pc = "up_call"
    /\ IF Len(image_url) = 0 \/ Len(bucket) = 0
       THEN /\ outcome' = [kind |-> "ValueError", value |-> <<>>]
            /\ pc' = "up_raised"
            /\ UNCHANGED s3_key
       ELSE /\ \E t \in Timestamps : s3_key' = <<"images", t, image_url>>
            /\ pc' = "up_download"
            /\ UNCHANGED outcome
    /\ attempt' = 0
    /\ last_error' = "None"
    /\ UNCHANGED <<image_url, bucket, max_retries, image_data, calls>>
    /\ UNCHANGED cascade_vars
    /\ UNCHANGED scrape_vars
    /\ UNCHANGED handler_vars
    /\ UNCHANGED readable_vars

\* one pass of the loop of _download_image_with_retry: status 200 returns the
\* data and the upload loop starts; anything else is stored in last_error
\* and, unless this was the last pass, the task sleeps
DownloadAttempt ==
    /\ pc = "up_download"
    /\ attempt < max_retries
    /\ \E reply \in DownloadReplies :
          IF reply = "200"
          THEN /\ calls' = Append(calls, Call("get", attempt, TRUE, 0))
               /\ image_data' = "bytes"
               /\ last_error' = "None"
               /\ attempt' = 0
               /\ pc' = "up_put"
          ELSE /\ calls' = Append(calls, Call("get", attempt, FALSE, 0))
                              \o Backoff(attempt, max_retries)
               /\ last_error' = DownloadError(reply)
               /\ attempt' = attempt + 1
               /\ UNCHANGED <<image_data, pc>>
    /\ UNCHANGED <<image_url, bucket, max_retries, s3_key, outcome>>
    /\ UNCHANGED cascade_vars
    /\ UNCHANGED scrape_vars
    /\ UNCHANGED handler_vars
    /\ UNCHANGED readable_vars

\* the loop of _download_image_with_retry is over: "All retries failed"
DownloadExhausted ==
    /\ pc = "up_download"
    /\ ~(attempt < max_retries)
    /\ outcome' = [kind |-> "S3UploadError", value |-> <<"download", last_error>>]
    /\ pc' = "up_raised"
    /\ UNCHANGED <<image_url, bucket, max_retries, s3_key, attempt, image_data,
                   last_error, calls>>
    /\ UNCHANGED cascade_vars
    /\ UNCHANGED scrape_vars
    /\ UNCHANGED handler_vars
    /\ UNCHANGED readable_vars

\* one pass of the loop of _upload_to_s3_with_retry: when put_object returns,
\* upload_image_to_s3 returns the s3:// URL of bucket and key
PutAttempt ==
    /\ pc = "up_put"
    /\ attempt < max_retries
    /\ \E reply \in PutReplies :
          IF reply = "ok"
          THEN /\ calls' = Append(calls, Call("put", attempt, TRUE, 0))
               /\ outcome' = [kind |-> "return", value |-> <<"s3", bucket, s3_key>>]
               /\ pc' = "up_returned"
               /\ UNCHANGED <<last_error, attempt>>
          ELSE /\ calls' = Append(calls, Call("put", attempt, FALSE, 0))
                              \o Backoff(attempt, max_retries)
               /\ last_error' = reply
               /\ attempt' = attempt + 1
               /\ UNCHANGED <<outcome, pc>>
    /\ UNCHANGED <<image_url, bucket, max_retries, s3_key, image_data>>
    /\ UNCHANGED cascade_vars
    /\ UNCHANGED scrape_vars
    /\ UNCHANGED handler_vars
    /\ UNCHANGED readable_vars

\* the loop of _upload_to_s3_with_retry is over: "All retries failed"
PutExhausted ==
    /\ pc = "up_put"
    /\ ~(attempt < max_retries)
    /\ outcome' = [kind |-> "S3UploadError", value |-> <<"upload", last_error>>]
    /\ pc' = "up_raised"
    /\ UNCHANGED <<image_url, bucket, max_retries, s3_key, attempt, image_data,
                   last_error, calls>>
    /\ UNCHANGED cascade_vars
    /\ UNCHANGED scrape_vars
    /\ UNCHANGED handler_vars
    /\ UNCHANGED readable_vars

NextUpload ==
    \/ UploadStart
    \/ DownloadAttempt
    \/ DownloadExhausted
    \/ PutAttempt
    \/ PutExhausted

SpecUpload == InitUpload /\ [][NextUpload]_vars

----------------------------------------------------------------------------
(* Properties of the cascade *)

ContentDone == pc = "done" /\ ~include_images

\* the list a queried provider handed back (empty when it was not queried)
Returned(i) == IF i <= Len(queries) THEN queries[i].urls ELSE <<>>

\* a list of candidates that are pairwise distinct, admissible, and whose pages
\* load with a plain title and at least 50 readable words
UsableList(us) ==
    /\ \A i \in DOMAIN us : ~BlockedUrl[us[i]] /\ PageOf[us[i]] = "good"
    /\ \A i, j \in DOMAIN us : i # j => NormalizedUrl[us[i]] # NormalizedUrl[us[j]]

\* C1: the returned result holds at most k items, and the accepted list never
\* grows past k on the way there.
C1_AtMostK == Len(valid_results) <= k /\ (pc = "done" => Len(result) <= k)

\* a run returned exactly k items although more scraped candidates were waiting
C1_Witness == ContentDone /\ Len(result) = k /\ eval_idx < Len(scraped)

\* the normalization the data model describes: trailing slash stripped, fragment
\* dropped, lower-cased
DescribedNormalize(url) == Lower(BeforeFirst(RStrip(url, "/"), "#"))

\* C2: no two accepted items share a normalized URL (trailing slash stripped,
\* fragment dropped, lower-cased), whichever providers supplied them.
C2_NoSharedNormalizedUrl ==
    \A i, j \in DOMAIN valid_results :
        i # j => DescribedNormalize(UrlText[valid_results[i].url])
                     # DescribedNormalize(UrlText[valid_results[j].url])

\* C3: every accepted item, and every item of a content-mode result, was fetched
\* successfully and has at least 50 words, whichever provider supplied it.
C3_AcceptedPassedGate ==
    /\ \A i \in DOMAIN valid_results :
          valid_results[i].success /\ valid_results[i].word_count >= 50
    /\ ContentDone =>
          \A i \in DOMAIN result : result[i].success /\ result[i].word_count >= 50

\* a fallback's batch held a failed or short item and something was accepted
C3_Witness ==
    /\ pc = "after" /\ prov >= 2 /\ Len(valid_results) > 0
    /\ \E i \in DOMAIN scraped : ~scraped[i].success \/ scraped[i].word_count < 50

\* C4: if the deadline signal already says "stop" when the request enters (time
\* only runs down, so it keeps saying so), the result has no items and no
\* provider is recorded: the identifier is "none".
C4_DeadlineAtStart ==
    (ContentDone /\ stop_at_start)
        => (result = <<>> /\ engines_used = <<>> /\ actual_engine = "none")

\* such a run ended after providers had handed back candidates
C4_Witness ==
    /\ ContentDone /\ stop_at_start
    /\ \E i \in DOMAIN queries : Len(queries[i].urls) > 0

\* C5: once a deadline check has answered "stop", no provider is queried and no
\* page is fetched any more.
C5_StopsImmediately == [][deadline_hit => (queries' = queries /\ fetched' = fetched)]_vars

\* C7: when the primary hands back at least k usable candidates and no deadline
\* check fires, the result has exactly k items, only the primary was queried and
\* only the primary is recorded.
C7_PrimarySuffices ==
    (ContentDone /\ ~deadline_hit /\ Len(Returned(1)) >= k /\ UsableList(Returned(1)))
        => /\ Len(result) = k
           /\ Len(queries) = 1
           /\ engines_used = <<"brave">>
           /\ actual_engine = "brave"

\* the scenario of the specification: k = 5 and 8 good candidates
C7_Witness ==
    /\ ContentDone /\ ~deadline_hit /\ k = 5
    /\ Len(Returned(1)) = 8 /\ UsableList(Returned(1))
    /\ Len(result) = 5

\* what C8 promises of a run whose primary handed back nothing and whose first
\* fallback handed back at least k usable candidates
FallbackSuffices ==
    /\ Len(result) = k
    /\ Len(queries) = 2
    /\ engines_used = <<"startpage">>
    /\ actual_engine = "startpage"

FallbackScenario ==
    /\ ContentDone
    /\ Len(queries) >= 2 /\ Returned(1) = <<>>
    /\ Len(Returned(2)) >= k /\ UsableList(Returned(2))

\* C8 as stated: primary returns nothing, first fallback returns at least k
\* usable candidates: exactly k items, only the fallback recorded, no later
\* fallback queried.
C8_AsStated == FallbackScenario => FallbackSuffices

\* C8 amended: the same, provided no deadline check fires during the run.
C8_FallbackSuffices == (FallbackScenario /\ ~deadline_hit) => FallbackSuffices

\* k = 5, the first fallback hands back 8 good candidates, a deadline context
\* is present and did not fire
C8_Witness ==
    /\ FallbackScenario /\ ~deadline_hit /\ has_monitor /\ has_context
    /\ k = 5 /\ Len(Returned(2)) = 8 /\ Len(result) = 5

\* C9: if every provider that is queried hands back only block pages (no
\* words), the result has no items and the identifier is "none" (stated for
\* the runs in which no deadline check fires, where it already fails).
C9_BlockPagesGiveNone ==
    (/\ ContentDone /\ ~deadline_hit
     /\ \A i \in DOMAIN queries :
            /\ Len(queries[i].urls) > 0
            /\ \A j \in DOMAIN queries[i].urls : PageOf[queries[i].urls[j]] = "block")
        => (result = <<>> /\ actual_engine = "none")

\* C10: the budget is 5 exactly when a monitor is present and usage / allocated
\* is strictly above 0.8, and 11 otherwise; no wave holds more fetches than it.
C10_Budget ==
    /\ (~include_images /\ pc # "entry")
          => max_parallel = (IF has_monitor /\ 10 * mem_sample[1] > 8 * mem_sample[2]
                             THEN 5 ELSE 11)
    /\ pc # "entry" => Len(wave) <= max_parallel

\* a full wave of the reduced budget is in flight and more URLs wait behind it
C10_Witness ==
    /\ pc = "gather" /\ max_parallel = 5 /\ Len(wave) = 5
    /\ Len(unique_urls) > batch_start + 5

\* C11: normalization is idempotent: every normalized URL the dedup loop has
\* stored is left as it is by a second normalization.
C11_NormalizeIdempotent == \A n \in seen_normalized : normalize_url(n) = n

\* provider name has had at least one of its URLs handed to the scraper
Attempted(name) == \E i \in DOMAIN fetched : fetched[i].engine = name

\* C12: a provider is recorded in engines_used exactly when at least one of its
\* admitted URLs was handed to the scraper, accepted items or not.
C12_ListedIffScraped ==
    ContentDone =>
        \A p \in DOMAIN ProviderName :
            (ProviderName[p] \in Range(engines_used)) <=> Attempted(ProviderName[p])

\* the shortfall of the accepted list
Shortfall == k - Len(valid_results)

\* C13 as stated: with fewer than k items accepted, the next provider is
\* consulted exactly when the provider just processed produced no admissible
\* URL or the shortfall exceeds the acceptable shortage (2 up to k = 10, else 4)
\* (stated for the runs in which no deadline stop has occurred, where it
\* already fails).
C13_AsStated ==
    [][(pc = "consider" /\ Shortfall > 0 /\ ~deadline_hit)
          => ((pc' = "query")
                 <=> (Len(unique_urls) = 0 \/ Shortfall > (IF k <= 10 THEN 2 ELSE 4)))]_vars

\* the primary's list held no admissible URL
PrimaryGaveNone == Len(queries) >= 1 /\ FilterCandidates(queries[1].urls, {})[1] = <<>>

\* C13 amended: with fewer than k items accepted, the next provider is
\* consulted exactly when the shortfall exceeds the acceptable shortage, or the
\* primary produced no admissible URL and nothing has been accepted so far.
C13_ContinueRule ==
    [][(pc = "consider" /\ Shortfall > 0)
          => ((pc' = "query")
                 <=> (\/ Shortfall > (IF k <= 10 THEN 2 ELSE 4)
                      \/ PrimaryGaveNone /\ Len(valid_results) = 0))]_vars

\* the second fallback is about to be queried for a small k although the first
\* fallback had admissible URLs (all of them rejected)
C13_Witness ==
    /\ pc = "query" /\ prov = 3 /\ k <= 2
    /\ PrimaryGaveNone /\ Len(unique_urls) > 0 /\ Len(valid_results) = 0
    /\ ~deadline_hit

\* C14: every provider that is queried is asked for the remaining need plus its
\* buffer (3 up to a need of 5, 4 up to 10, 5 above), override or not.
C14_AskedForNeedPlusBuffer ==
    [][(pc = "query" /\ queries' # queries)
          => queries'[Len(queries')].want
                = Shortfall + (IF Shortfall <= 5 THEN 3 ELSE IF Shortfall <= 10 THEN 4 ELSE 5)]_vars

\* the third provider was asked under the "previous providers failed" override
\* after the second one had had its pages scraped
C14_Witness ==
    /\ ~include_images /\ Len(queries) >= 3 /\ PrimaryGaveNone
    /\ Attempted("startpage") /\ queries[3].want = search_k

\* the latest provider invocation of a log
LastQuery(log) == log[Len(log)]

NoCandidates ==
    \A i \in DOMAIN queries : \A j \in DOMAIN queries[i].urls : BlockedUrl[queries[i].urls[j]]

BelowBuffer == has_monitor /\ has_context /\ remaining' < 5

\* C30: a deadline check answers "stop" exactly when the time remaining is
\* strictly less than the buffer of 5 seconds, so a reading equal to the buffer
\* lets the cascade go on; without a deadline context the time remaining is
\* the sentinel and the cascade never stops for the deadline.
C30_StopBelowBuffer ==
    [][/\ (pc = "entry" /\ pc' = "query") => (stop_at_start' <=> BelowBuffer)
       /\ pc = "precheck" =>
             /\ pc' = "after" <=> BelowBuffer
             /\ deadline_hit' <=> (deadline_hit \/ BelowBuffer)
       /\ (pc = "evaluate" /\ Len(valid_results') < k /\ eval_idx < Len(scraped)) =>
             /\ pc' = "after" <=> BelowBuffer
             /\ deadline_hit' <=> (deadline_hit \/ BelowBuffer)
       /\ ~has_context =>
             remaining' = 999999 /\ ~deadline_hit' /\ ~stop_at_start']_vars

\* a check that read exactly 5 seconds let the batch be scraped, and a later
\* check of the evaluation loop read 4 seconds and stopped it with items left
C30_Witness ==
    /\ pc = "after" /\ deadline_hit /\ ~stop_at_start
    /\ has_context /\ remaining = 4
    /\ Len(fetched) > 0 /\ eval_idx < Len(scraped)

----------------------------------------------------------------------------
(* Properties of scrape_parallel_playwright *)

\* C6: under every interleaving of the tasks, the number of pages opened by
\* fetches and not yet released never exceeds max_parallel.
C6_InFlightBound == Cardinality(open_pages) <= max_parallel

\* a later wave has all max_parallel pages open at once
C6_Witness ==
    /\ pc = "sp_gather" /\ batch_start > 0 /\ max_parallel >= 2
    /\ Cardinality(open_pages) = max_parallel

\* scrape_parallel_playwright has returned a list for a non-empty input
ScrapeReturned == pc = "sp_returned" /\ Len(unique_urls) > 0

\* C17: a URL whose fetch fails gets an item with success false, no words and
\* a reason, and every other URL of its wave and of later waves still gets an
\* item of its own: a page that loads is reported as loaded.
C17_FailureIsolated ==
    ScrapeReturned =>
        /\ Len(scraped) = Len(unique_urls)
        /\ \A i \in DOMAIN scraped :
              /\ scraped[i] # NoResult
              /\ scraped[i].success
                    => scraped[i] = scrape_url_playwright(unique_urls[i], PageOf[unique_urls[i]])
              /\ ~scraped[i].success
                    => scraped[i].word_count = 0 /\ scraped[i].error \notin {"", "None", "unset"}

\* the first URL's page could not be opened; a URL of the same wave and a URL
\* of the next wave were scraped with success
C17_Witness ==
    /\ ScrapeReturned /\ max_parallel = 3 /\ Len(scraped) = 5
    /\ scraped[1] = TabFailure(unique_urls[1])
    /\ scraped[3].success /\ scraped[5].success

\* C18: the returned list has the length of the input and entry i is the item
\* of urls[i], whatever the order in which the fetches of a wave completed.
C18_SameLengthAndOrder ==
    ScrapeReturned =>
        /\ Len(scraped) = Len(unique_urls)
        /\ \A i \in DOMAIN scraped : scraped[i] # NoResult /\ scraped[i].url = unique_urls[i]

\* the first task of a wave is still waiting for its page while the last one
\* has already finished
C18_Witness ==
    /\ pc = "sp_gather" /\ batch_start > 0 /\ Len(wave) >= 2
    /\ task_state[batch_start + 1].at = "pending"
    /\ task_state[batch_start + Len(wave)].at = "finished"
    /\ task_state[batch_start + Len(wave)].value.success

\* C19: a task that has finished holds no page and has closed every page it
\* opened exactly once; between the waves and after the return no page is open.
C19_PagesReleased ==
    /\ \A i \in DOMAIN task_state :
          /\ task_state[i].closes <= task_state[i].opens /\ task_state[i].opens <= 1
          /\ task_state[i].at = "finished"
                => i \notin open_pages /\ task_state[i].closes = task_state[i].opens
    /\ pc \in {"sp_loop", "sp_returned"} => open_pages = {}

\* the scraper has returned after fetches that loaded, a fetch whose
\* navigation failed and a fetch whose page could not be opened
C19_Witness ==
    /\ ScrapeReturned /\ open_pages = {} /\ Len(scraped) = 5
    /\ \E i \in DOMAIN scraped : scraped[i].success
    /\ \E i \in DOMAIN scraped : scraped[i].error = "Playwright scraping error"
    /\ \E i \in DOMAIN scraped : scraped[i].error = "Scraping failed"

\* the position of a fetched URL in the list handed to the scraper
IndexOf(u) == CHOOSE i \in DOMAIN unique_urls : unique_urls[i] = u

\* C23: the URLs are processed in consecutive waves of max_parallel URLs, the
\* last one possibly shorter, and no fetch of a wave starts before every fetch
\* of the waves before it has finished, successfully or not.
C23_WavesInSequence ==
    /\ batch_start % max_parallel = 0
    /\ pc = "sp_gather" =>
          /\ DOMAIN task_state =
                 (batch_start + 1)..Min(batch_start + max_parallel, Len(unique_urls))
          /\ wave = [i \in 1..Len(wave) |-> unique_urls[batch_start + i]]
          /\ Len(wave) = Cardinality(DOMAIN task_state)
    /\ pc # "sp_gather" => DOMAIN task_state = {}
    /\ \A f \in DOMAIN fetched : IndexOf(fetched[f].url) <= batch_start + max_parallel
    /\ (\E i \in DOMAIN task_state : task_state[i].at # "pending")
          => \A j \in 1..batch_start : results[j] # NoResult /\ results[j].url = unique_urls[j]

\* a fetch of the last, shorter wave is under way after a wave in which one
\* fetch failed and one succeeded
C23_Witness ==
    /\ pc = "sp_gather" /\ batch_start >= 2
    /\ Len(wave) < max_parallel
    /\ \E i \in DOMAIN task_state : task_state[i].at = "open"
    /\ \E j \in 1..batch_start : ~results[j].success
    /\ \E j \in 1..batch_start : results[j].success

----------------------------------------------------------------------------
(* Properties of is_llm_readable *)

\* the number of characters of s that are letters, digits or whitespace
ReadableChar(c) == IsAlnum(c) \/ IsSpace(c)

ReadableCount(s) == Len(SelectSeq(s, ReadableChar))

RuleReadablePage ==
    [p \in PageIds |->
        /\ Len(PageContent[p]) >= 10
        /\ 10 * ReadableCount(PageContent[p]) >= 7 * Len(PageContent[p])]

\* under Spec: the content of every accepted item satisfies the rule, and a
\* page that loaded with 50 words and a plain title has been turned down only
\* if its content does not
AcceptedTextReadable ==
    /\ \A i \in DOMAIN valid_results : RuleReadablePage[valid_results[i].page]
    /\ pc = "after" /\ eval_idx <= Len(scraped) =>
          \A i \in 1..eval_idx :
              (/\ scraped[i].success /\ scraped[i].word_count >= MinWords
               /\ \A marker \in TitleMarkers : ~Contains(TitleOf(scraped[i]), marker)
               /\ scraped[i] \notin Range(valid_results))
                  => ~RuleReadablePage[scraped[i].page]

\* under Spec: a page whose content is readable to exactly 70% was accepted
\* and one at 69% was turned down
AcceptedAtSeventy ==
    /\ pc = "after" /\ eval_idx <= Len(scraped)
    /\ \E i \in DOMAIN valid_results : valid_results[i].page = "seventy"
    /\ \E i \in 1..eval_idx : scraped[i].page = "sixtynine"
    /\ \A i \in DOMAIN valid_results : valid_results[i].page # "sixtynine"

----------------------------------------------------------------------------
(* Properties of lambda_handler *)

\* a request as the interface calls it malformed: query empty or blank, query
\* longer than 500 characters, k outside 1..20, or an engine that is not one
\* of the four provider names
Malformed ==
    \/ \A i \in DOMAIN query : query[i] \in {" ", "\t", "\n"}
    \/ Len(query) > 500
    \/ k < 1 \/ k > 20
    \/ engine \notin {"brave", "startpage", "yahoo", "yandex"}

\* C20: a malformed request never gets a browser, a provider query or a page
\* fetch, and the response it gets is a failure.
C20_MalformedRejected ==
    Malformed =>
        /\ ~browser_created
        /\ queries = <<>> /\ fetched = <<>>
        /\ pc \notin {"done"}
        /\ pc = "responded" => status_code \in {400, 500}

\* a content request whose query is blank, with k and the engine in order, has
\* been answered with status 400
C20_Witness ==
    /\ pc = "responded" /\ status_code = 400
    /\ ~include_images /\ engine = "brave" /\ k = 1
    /\ Len(query) > 0 /\ \A i \in DOMAIN query : query[i] \in {" ", "\t", "\n"}

----------------------------------------------------------------------------
(* Properties of the candidate filter, the quality gate and the providers *)

\* the provider whose batch held URL u when it was handed to the scraper
FetchedFor(u) ==
    LET i == CHOOSE j \in DOMAIN fetched : fetched[j].url = u IN fetched[i].engine

\* the host of a URL with a leading "www." stripped
RegistrableDomain(url) ==
    LET host == Hostname(url)
    IN  IF Len(host) >= 4 /\ SubSeq(host, 1, 4) = <<"w", "w", "w", ".">>
        THEN SubSeq(host, 5, Len(host)) ELSE host

RegistrableDomainOf == [u \in UrlIds |-> RegistrableDomain(UrlText[u])]

\* C21: no two accepted items that came from the same provider's batch share a
\* registrable domain, for every provider of the cascade, Startpage included.
C21_OneDomainPerBatch ==
    \A i, j \in DOMAIN valid_results :
        (i # j /\ FetchedFor(valid_results[i].url) = FetchedFor(valid_results[j].url))
            => RegistrableDomainOf[valid_results[i].url]
                   # RegistrableDomainOf[valid_results[j].url]

\* C22: once the accepted list holds k items nothing more happens in the
\* cascade: no further item is evaluated or appended, no provider is queried
\* and no page is fetched before the result is returned.
C22_StopsAtK ==
    [][(~include_images /\ Len(valid_results) >= k)
          => /\ valid_results' = valid_results
             /\ eval_idx' = eval_idx
             /\ queries' = queries
             /\ fetched' = fetched
             /\ pc' \in {"after", "consider", "finalize", "done"}]_vars

\* the k-th item was accepted from a fallback's batch while more scraped
\* candidates and more providers were waiting, and the result was returned
C22_Witness ==
    /\ ContentDone /\ Len(result) = k
    /\ Len(queries) = 2 /\ queries[2].engine = "startpage"
    /\ eval_idx < Len(scraped)

\* sub is a subsequence of full: its elements appear in full in the same order
RECURSIVE IsSubsequence(_, _)
IsSubsequence(sub, full) ==
    IF sub = <<>> THEN TRUE
    ELSE IF full = <<>> THEN FALSE
    ELSE IF Head(sub) = Head(full) THEN IsSubsequence(Tail(sub), Tail(full))
    ELSE IsSubsequence(sub, Tail(full))

\* C24: candidate filtering is total and order-preserving: whatever list the
\* provider handed back, the empty one included, the step completes, and the
\* admitted URLs are a subsequence of that list, each in the spelling the
\* provider gave, which is the spelling that is fetched.
C24_FilterKeepsOrder ==
    /\ pc \in {"precheck", "scrape", "gather", "evaluate"} =>
          /\ IsSubsequence(unique_urls, LastQuery(queries).urls)
          /\ \A i \in DOMAIN unique_urls :
                /\ ~BlockedUrl[unique_urls[i]]
                /\ NormalizedUrl[unique_urls[i]] \in seen_normalized
          /\ pc = "evaluate" =>
                /\ Len(fetched) >= Len(unique_urls)
                /\ unique_urls = [i \in 1..Len(unique_urls) |->
                                      fetched[Len(fetched) - Len(unique_urls) + i].url]
    /\ (pc = "after" /\ LastQuery(queries).urls = <<>>) => unique_urls = <<>>

\* a fallback's list lost blocked and already seen entries, at least two of the
\* others were admitted and one of them was spelled differently from its
\* normalized form
C24_Witness ==
    /\ pc = "evaluate" /\ Len(queries) >= 2
    /\ Len(unique_urls) >= 2
    /\ Len(unique_urls) < Len(LastQuery(queries).urls)
    /\ \E i \in DOMAIN unique_urls : UrlText[unique_urls[i]] # NormalizedUrl[unique_urls[i]]
    /\ \E i \in DOMAIN LastQuery(queries).urls : BlockedUrl[LastQuery(queries).urls[i]]

\* no two fetches of the request have the same normalized URL
NoRefetch ==
    \A i, j \in DOMAIN fetched :
        i # j => NormalizedUrl[fetched[i].url] # NormalizedUrl[fetched[j].url]

\* C25: the seen set only grows during a request and is never reset between
\* providers, and within one request no normalized URL is fetched twice.
C25_SeenOnlyGrows ==
    [][/\ seen_normalized \subseteq seen_normalized'
       /\ NoRefetch'
       /\ \A i \in DOMAIN fetched' : NormalizedUrl[fetched'[i].url] \in seen_normalized']_vars

\* a fallback listed, in another spelling, a URL that the primary's batch had
\* already been fetched for; it was dropped and other URLs of the list went on
C25_Witness ==
    /\ pc = "evaluate" /\ Len(queries) = 2
    /\ Len(unique_urls) > 0
    /\ \E i \in DOMAIN queries[1].urls, j \in DOMAIN queries[2].urls :
          /\ queries[1].urls[i] # queries[2].urls[j]
          /\ NormalizedUrl[queries[1].urls[i]] = NormalizedUrl[queries[2].urls[j]]
          /\ \E f \in DOMAIN fetched :
                fetched[f].engine = "brave" /\ fetched[f].url = queries[1].urls[i]
          /\ queries[2].urls[j] \notin Range(unique_urls)

\* the domains of the blocklist: each entry up to its path
BlockedDomainNames == {BeforeAny(blocked, {"/"}) : blocked \in blocked_domains}

\* the registrable domain of url is a blocked domain or a subdomain of one
OnBlockedDomain(url) ==
    LET dom == RegistrableDomain(url)
    IN  \E name \in BlockedDomainNames :
            \/ dom = name
            \/ /\ Len(dom) > Len(name)
               /\ SubSeq(dom, Len(dom) - Len(name), Len(dom)) = <<".">> \o name

OnBlockedDomainOf == [u \in UrlIds |-> OnBlockedDomain(UrlText[u])]

\* C26: a candidate is rejected as blocked exactly when its registrable domain
\* matches a blocked domain as a domain suffix: of the list a provider handed
\* back, the URLs on blocked domains are not admitted, and every other URL is
\* admitted unless its normalized form had been seen.
C26_BlockedByDomainOnly ==
    pc = "precheck" =>
        \A i \in DOMAIN LastQuery(queries).urls :
            LET u == LastQuery(queries).urls[i]
            IN  IF OnBlockedDomainOf[u]
                THEN u \notin Range(unique_urls)
                ELSE NormalizedUrl[u] \in seen_normalized

\* C27: no accepted item has a title that contains "403", "Forbidden", "404"
\* or "Not Found" as written, whichever provider supplied it.
C27_NoMarkerInTitle ==
    \A i \in DOMAIN valid_results :
        \A marker \in TitleMarkers : ~Contains(TitleOf(valid_results[i]), marker)

\* a fallback's batch held a page titled "404 Not Found" with 60 readable
\* words; the loop has passed it and it was not accepted, while another page
\* of the batch was
C27_Witness ==
    /\ pc = "after" /\ prov >= 2 /\ Len(valid_results) > 0
    /\ eval_idx <= Len(scraped)
    /\ \E i \in 1..eval_idx :
          /\ scraped[i].page = "notfound"
          /\ scraped[i].word_count >= MinWords
          /\ scraped[i] \notin Range(valid_results)
    /\ \E i \in 1..eval_idx : scraped[i] \in Range(valid_results)

\* C28: the block/error-page markers are matched without regard to letter
\* case: no accepted item has a title that contains "forbidden" or "not found"
\* (or "403", "404") in any casing.
C28_MarkersAnyCase ==
    \A i \in DOMAIN valid_results :
        \A marker \in TitleMarkers :
            ~Contains(Lower(TitleOf(valid_results[i])), Lower(marker))

\* the position of provider name in the priority list
Priority(name) == CHOOSE p \in DOMAIN ProviderName : ProviderName[p] = name

\* the position of URL u in the list the provider called name handed back
RankIn(name, u) ==
    LET q == CHOOSE i \in DOMAIN queries : queries[i].engine = name
    IN  CHOOSE r \in DOMAIN queries[q].urls : queries[q].urls[r] = u

\* items by provider priority, and by the provider's rank within one provider
InProviderOrder(items) ==
    \A i, j \in DOMAIN items :
        i < j =>
            LET a == FetchedFor(items[i].url)
                b == FetchedFor(items[j].url)
            IN  \/ Priority(a) < Priority(b)
                \/ a = b /\ RankIn(a, items[i].url) < RankIn(b, items[j].url)

\* C31: the accepted list is ordered by provider priority and then by provider
\* rank, and it is only ever appended to: never reordered, never shortened.
C31_AcceptedInOrder ==
    [][/\ Len(valid_results') >= Len(valid_results)
       /\ valid_results = Take(valid_results', Len(valid_results))
       /\ InProviderOrder(valid_results')]_vars

\* two providers each supplied two returned items that were not neighbours in
\* the provider's list
C31_Witness ==
    /\ ContentDone
    /\ \A name \in {"brave", "startpage"} :
          \E i, j \in DOMAIN result :
              /\ i < j
              /\ FetchedFor(result[i].url) = name /\ FetchedFor(result[j].url) = name
              /\ RankIn(name, result[j].url) > RankIn(name, result[i].url) + 1

\* C32: in image mode no content page is fetched, no fallback provider is
\* consulted and no quality gate is applied: the result items are exactly the
\* image URLs the image provider returned, in its order and at most k of them,
\* each with success true and word count 0, and the identifier is "bing".
C32_ImageMode ==
    include_images =>
        /\ fetched = <<>> /\ valid_results = <<>> /\ seen_normalized = {}
        /\ \A i \in DOMAIN queries : queries[i].engine = "bing"
        /\ pc = "done" =>
              /\ Len(queries) = 1
              /\ Len(result) = Len(queries[1].urls) /\ Len(result) <= k
              /\ \A i \in DOMAIN result :
                    /\ result[i].url = queries[1].urls[i]
                    /\ result[i].success /\ result[i].word_count = 0
              /\ actual_engine = "bing"

\* an image request for three images was answered with the first three image
\* URLs of a provider that had more
C32_Witness ==
    /\ include_images /\ pc = "done" /\ k = 3
    /\ Len(result) = 3 /\ actual_engine = "bing"
    /\ \A i \in 1..3 : result[i].url = RankGood[i]

\* C33: in a content-mode run each provider is queried at most once and the
\* providers queried are a prefix of brave, startpage, yahoo, yandex, queried in
\* that order; the recorded providers are in priority order without duplicates.
C33_PriorityPrefix ==
    ~include_images =>
        /\ Len(queries) <= Len(ProviderName)
        /\ \A i \in DOMAIN queries : queries[i].engine = ProviderName[i]
        /\ \A i, j \in DOMAIN engines_used :
              i < j => Priority(engines_used[i]) < Priority(engines_used[j])

\* a run ended after its third provider: the last one was never queried, and
\* two of the three were recorded
C33_Witness ==
    /\ ContentDone /\ Len(queries) = 3
    /\ Len(engines_used) = 2

\* the composite identifier that names exactly the providers of S
Composite(S) ==
    LET names == SelectSeq(ProviderName, LAMBDA name : Priority(name) \in S)
    IN  JoinPlus(names)

\* provider name is one of the names joined in identifier id
NamedIn(name, id) ==
    \E S \in SUBSET (DOMAIN ProviderName) : Priority(name) \in S /\ id = Composite(S)

\* C34: whenever the returned result has at least one item, the composite
\* identifier is not "none" and names every provider that supplied at least one
\* of the returned items.
C34_SuppliersNamed ==
    (pc = "done" /\ Len(result) > 0) =>
        /\ actual_engine # "none"
        /\ IF include_images THEN actual_engine = "bing"
           ELSE \A i \in DOMAIN result : NamedIn(FetchedFor(result[i].url), actual_engine)

\* the primary's batch gave no item, two fallbacks supplied the returned
\* items, and the identifier names the two
C34_Witness ==
    /\ ContentDone /\ actual_engine = "startpage+yahoo"
    /\ \E i \in DOMAIN result : FetchedFor(result[i].url) = "startpage"
    /\ \E i \in DOMAIN result : FetchedFor(result[i].url) = "yahoo"
    /\ Attempted("brave")

\* the steps a run has at most left: the provider blocks still ahead and
\* the position inside the current block
StepsLeft ==
    IF pc = "done" THEN 0
    ELSE IF pc = "finalize" THEN 1
    ELSE (5 - prov) * 10
             + (CASE pc = "consider" -> 8
                  [] pc = "query" -> 7
                  [] pc = "precheck" -> 6
                  [] pc \in {"scrape", "gather", "evaluate"} -> 5
                  [] pc = "after" -> 1
                  [] OTHER -> 9)

\* the step the run is at can be taken: the blocks between a stop and the
\* return are the bookkeeping, a provider query, which hands back a list or
\* fails into the empty list, and the deadline check in front of a batch
CanStep ==
    \/ pc \in {"after", "consider", "finalize"}
    \/ pc = "query" /\ ProviderOutcomes(prov, WantCount(prov)) # {}
    \/ pc = "precheck" /\ ClockReadings # {}

\* C35: with a deadline context and time that only runs down, once a deadline
\* check has answered "stop" no scrape wave is started and no item is accepted
\* for the rest of the run, and the run goes on to return its result: it is
\* never stuck and every step brings it closer to the return.
C35_NothingAfterDeadline ==
    /\ [][deadline_hit =>
             /\ fetched' = fetched
             /\ valid_results' = valid_results
             /\ pc' \notin {"scrape", "gather", "evaluate"}
             /\ StepsLeft' < StepsLeft
             /\ pc' = "done" => result' = Take(valid_results, k)]_vars
    /\ []((deadline_hit /\ pc # "done") => CanStep)

\* the evaluation loop of the primary was stopped by the deadline with items
\* accepted, two fallbacks were queried after that, nothing of theirs was
\* fetched, and the run returned the items accepted before the stop
C35_Witness ==
    /\ ContentDone /\ deadline_hit /\ has_context
    /\ Len(result) > 0 /\ Len(queries) >= 3
    /\ queries[2].urls # <<>> /\ queries[3].urls # <<>>
    /\ \A i \in DOMAIN fetched : fetched[i].engine = "brave"

\* C36: when a content-mode run has returned, its shortfall k - items is at
\* most the acceptable shortage (2 for k <= 10, 4 above) or all four providers
\* were queried.
C36_ShortOnlyAfterAll ==
    ContentDone =>
        \/ k - Len(result) <= (IF k <= 10 THEN 2 ELSE 4)
        \/ /\ Len(queries) = 4
           /\ {queries[i].engine : i \in DOMAIN queries} = Range(ProviderName)

\* a run returned some items, more than the acceptable shortage short, after
\* it had queried all four providers
C36_Witness ==
    /\ ContentDone /\ Len(queries) = 4
    /\ Len(result) > 0
    /\ k - Len(result) > (IF k <= 10 THEN 2 ELSE 4)
    /\ ~deadline_hit

\* C37: the concurrency budget is computed once, when the request starts, from
\* the memory reading of that moment, and stays as it is: every wave of every
\* provider takes that many URLs (or the rest of the batch), whatever the
\* memory reading does while the cascade runs.
C37_BudgetFixed ==
    [][/\ (pc = "entry" /\ pc' = "query") =>
             max_parallel' = (IF 10 * mem_sample[1] > 8 * mem_sample[2] THEN 5 ELSE 11)
       /\ pc # "entry" => max_parallel' = max_parallel
       /\ (pc = "scrape" /\ pc' = "gather") =>
             /\ Len(wave') = Min(max_parallel, Len(unique_urls) - batch_start)
             /\ wave' = [i \in 1..Len(wave') |-> unique_urls[batch_start + i]]
       /\ (pc = "gather" /\ pc' = "scrape") => batch_start' = batch_start + max_parallel]_vars

\* the request started with memory below 80% and a budget of 11; memory is
\* above 80% now, and a fallback's wave of more than 5 URLs is in flight
C37_Witness ==
    /\ pc = "gather" /\ prov >= 2
    /\ max_parallel = 11 /\ Len(wave) > 5
    /\ 10 * mem_sample[1] > 8 * mem_sample[2]


\* C38: validation and the cascade agree on what a valid content request is:
\* a content request that ContentSearchRequest.validate accepts (a query of
\* 1..500 characters, k in 1..20, any of the engines it allows) is never
\* rejected by search_and_scrape as an unsupported engine, so it is never
\* answered with status 500 for its engine.
C38_ValidatedRequestsRun ==
    (~include_images /\ ContentSearchRequest_validate(query, k, engine) = "ok")
        => /\ pc # "raised"
           /\ (pc = "responded" /\ ~browser_created) => status_code # 500


\* the positions in the log of the calls of one kind
CallsOf(op) == {i \in DOMAIN calls : calls[i].op = op}

\* the positions of the attempts of one kind that failed
FailedOf(op) == {i \in CallsOf(op) : ~calls[i].ok}

\* C39: upload_image_to_s3 makes at most max_retries download attempts and at
\* most max_retries put_object attempts; after a failed attempt it sleeps
\* 2^attempt seconds (attempt counted from 0 within its stage), except after
\* the last attempt allowed; put_object is attempted only after a download
\* attempt succeeded; the s3:// URL of bucket and key is returned only after
\* a put_object attempt succeeded; and when all the attempts of a stage have
\* failed the call raises S3UploadError.
C39_RetryDiscipline ==
    /\ Cardinality(CallsOf("get")) <= max_retries
    /\ Cardinality(CallsOf("put")) <= max_retries
    /\ \A i \in DOMAIN calls :
          /\ calls[i].op # "sleep" =>
                calls[i].attempt = Cardinality({j \in CallsOf(calls[i].op) : j < i})
          /\ calls[i].op = "sleep" =>
                /\ i > 1
                /\ calls[i - 1].op \in {"get", "put"}
                /\ ~calls[i - 1].ok
                /\ calls[i - 1].attempt < max_retries - 1
                /\ calls[i].secs = 2^(calls[i - 1].attempt)
          /\ (calls[i].op # "sleep" /\ ~calls[i].ok) =>
                IF calls[i].attempt < max_retries - 1
                THEN i < Len(calls) /\ calls[i + 1].op = "sleep"
                ELSE i = Len(calls) \/ calls[i + 1].op # "sleep"
          /\ calls[i].op = "put" =>
                \E j \in 1..(i - 1) : calls[j].op = "get" /\ calls[j].ok
    /\ outcome.kind = "return" =>
          /\ pc = "up_returned"
          /\ Len(calls) > 0
          /\ calls[Len(calls)].op = "put" /\ calls[Len(calls)].ok
          /\ outcome.value = <<"s3", bucket, s3_key>>
    /\ pc = "up_returned" => outcome.kind = "return"
    /\ (/\ pc \in {"up_raised", "up_returned"}
        /\ Len(image_url) > 0 /\ Len(bucket) > 0
        /\ \/ Cardinality(FailedOf("get")) = max_retries
           \/ Cardinality(FailedOf("put")) = max_retries)
          => outcome.kind = "S3UploadError"

\* with max_retries = 3 the download succeeded at its third attempt after
\* sleeps of 1 and 2 seconds, all three put_object attempts failed with sleeps
\* after the first two only, and the call raised S3UploadError
C39_Witness ==
    /\ pc = "up_raised" /\ outcome.kind = "S3UploadError"
    /\ max_retries = 3
    /\ Cardinality(CallsOf("get")) = 3
    /\ Cardinality(FailedOf("put")) = 3
    /\ [i \in DOMAIN calls |-> calls[i].secs] = <<0, 1, 0, 2, 0, 0, 1, 0, 2, 0>>

====
